---------------------------- MODULE Spec2Model ----------------------------
(***************************************************************************)
(* A model of github.com/sv-tools/openapi: the RefOrSpec container (its    *)
(* reference resolution against Components and its JSON encoding), and     *)
(* the BoolOrSchema union.                                                 *)
(*                                                                         *)
(* Go strings that the code slices, splits or compares by prefix are       *)
(* modelled as sequences of one-character strings, so that HasPrefix,      *)
(* the [13:] slice and SplitN are computed the way the code computes them. *)
(***************************************************************************)
EXTENDS Integers, Sequences, FiniteSets, TLC

VARIABLES
    components,  \* the document's Components (Nil when it has none), built by Add;
                 \* GetSpec is called with it
    pc,          \* "idle" | "getSpec" (inside GetSpec) | "done" | "panic"
    recv,        \* the container GetSpec was called on
    cur,         \* the receiver of the getSpec invocation about to run
    visited,     \* the visitedObjects map of the GetSpec call (a set of identifiers)
    ret,         \* what GetSpec returned: [val |-> .., err |-> ..]
    calls,       \* number of getSpec invocations of the GetSpec call
    lookups,     \* number of map lookups made in Components by the call
    box,         \* a RefOrSpec[Schema] that is encoded and decoded
    origin,      \* how box got its value: "zero", "new", "literal", "decoded"
    enc,         \* the last MarshalJSON: [of |-> box then, origin |-> .., json |-> output]
    before,      \* the receiver as it was when the last UnmarshalJSON was called
    jin,         \* the data of the last UnmarshalJSON
    jres,        \* its outcome: "none" | "ok" | "error" | "panic"
    ad,          \* a testAD value: [AP |-> Nil or a BoolOrSchema, Name |-> ..]
    adbefore,    \* the testAD as it was when it was last decoded into
    adin,        \* the data of the last json.Unmarshal into the testAD
    adres,       \* its outcome: "none" | "ok" | "error"
    adout,       \* the json.Marshal of ad, Nil when ad changed since
    adnew,       \* the NewBoolOrSchema that ad holds the result of, or was decoded
                 \* from the encoding of: [arg |-> .., val |-> what it returned]
    soa,         \* a SingleOrArray[string]
    soaenc,      \* its last MarshalJSON: [of |-> soa then, json |-> output]
    soain,       \* the data of the last UnmarshalJSON on soa
    soares,      \* its outcome: "none" | "ok" | "error"
    param,       \* the Parameter that is validated
    reject,      \* the example values the external schema checker rejects
    pres,        \* what Parameter.validateSpec returned, per doNotValidateExamples
    vrun,        \* the Validator of a validation run: [visited, checked, data]
    verrs,       \* the diagnostics the run has collected
    vlast,       \* the last RefOrSpec.validateSpec call of the run
    vpc,         \* "idle" | "run" | "done" | "panic"
    vdoc,        \* the document's containers outside Components, by where they are
    vtodo,       \* the parts of the document the run has still to validate
    vcalls,      \* the RefOrSpec.validateSpec calls of the run, in order
    runs         \* the runs that validate the document each in a thread of its own

resolveVars == <<components, pc, recv, cur, visited, ret, calls, lookups>>
jsonVars == <<box, origin, enc, before, jin, jres>>
boolVars == <<ad, adbefore, adin, adres, adout, adnew>>
soaVars == <<soa, soaenc, soain, soares>>
paramVars == <<param, reject, pres>>
runVars == <<vrun, verrs, vlast, vpc, vdoc, vtodo, vcalls>>
concVars == <<runs>>
vars == <<components, pc, recv, cur, visited, ret, calls, lookups,
          box, origin, enc, before, jin, jres,
          ad, adbefore, adin, adres, adout, adnew,
          soa, soaenc, soain, soares,
          param, reject, pres, vrun, verrs, vlast, vpc, vdoc, vtodo, vcalls, runs>>

-----------------------------------------------------------------------------
(* Go values *)

\* a nil pointer / nil interface / nil error
Nil == [nil |-> TRUE]

HasPrefix(s, p) == Len(s) >= Len(p) /\ SubSeq(s, 1, Len(p)) = p

\* the first index of character ch in s, 0 when there is none
RECURSIVE IndexFrom(_, _, _)
IndexFrom(s, ch, i) ==
    IF i > Len(s) THEN 0
    ELSE IF s[i] = ch THEN i
    ELSE IndexFrom(s, ch, i + 1)

\* strings.SplitN(s, "/", 2)
SplitN2(s) ==
    LET i == IndexFrom(s, "/", 1) IN
    IF i = 0 THEN <<s>>
    ELSE <<SubSeq(s, 1, i - 1), SubSeq(s, i + 1, Len(s))>>

\* "#/components/"
ComponentsPrefix == <<"#", "/", "c", "o", "m", "p", "o", "n", "e", "n", "t", "s", "/">>

\* o.Ref.Ref[13:]
PrefixLen == 13

S_schemas == <<"s", "c", "h", "e", "m", "a", "s">>
S_responses == <<"r", "e", "s", "p", "o", "n", "s", "e", "s">>
S_parameters == <<"p", "a", "r", "a", "m", "e", "t", "e", "r", "s">>
S_examples == <<"e", "x", "a", "m", "p", "l", "e", "s">>
S_requestBodies == <<"r", "e", "q", "u", "e", "s", "t", "B", "o", "d", "i", "e", "s">>
S_headers == <<"h", "e", "a", "d", "e", "r", "s">>
S_securitySchemes == <<"s", "e", "c", "u", "r", "i", "t", "y", "S", "c", "h", "e", "m", "e", "s">>
S_links == <<"l", "i", "n", "k", "s">>
S_callbacks == <<"c", "a", "l", "l", "b", "a", "c", "k", "s">>
S_paths == <<"p", "a", "t", "h", "s">>

\* The type parameter T of a RefOrSpec[T]: Schema, or Extendable[X] for the rest.
Kinds == {"Schema", "Response", "Parameter", "Example", "RequestBody",
          "Header", "SecurityScheme", "Link", "Callback", "PathItem"}

\* The fields of Components, each a map[string]*RefOrSpec[T] of one T.
EmptyComponents ==
    [Schemas |-> <<>>, Responses |-> <<>>, Parameters |-> <<>>, Examples |-> <<>>,
     RequestBodies |-> <<>>, Headers |-> <<>>, SecuritySchemes |-> <<>>,
     Links |-> <<>>, Callbacks |-> <<>>, Paths |-> <<>>]


CategoryName(field) ==
    CASE field = "Schemas" -> S_schemas
      [] field = "Responses" -> S_responses
      [] field = "Parameters" -> S_parameters
      [] field = "Examples" -> S_examples
      [] field = "RequestBodies" -> S_requestBodies
      [] field = "Headers" -> S_headers
      [] field = "SecuritySchemes" -> S_securitySchemes
      [] field = "Links" -> S_links
      [] field = "Callbacks" -> S_callbacks
      [] field = "Paths" -> S_paths

\* The Components field whose entries are *RefOrSpec[T], by T.
FieldOf(T) ==
    CASE T = "Schema" -> "Schemas"
      [] T = "Response" -> "Responses"
      [] T = "Parameter" -> "Parameters"
      [] T = "Example" -> "Examples"
      [] T = "RequestBody" -> "RequestBodies"
      [] T = "Header" -> "Headers"
      [] T = "SecurityScheme" -> "SecuritySchemes"
      [] T = "Link" -> "Links"
      [] T = "Callback" -> "Callbacks"
      [] T = "PathItem" -> "Paths"

\* Ref{Ref: id, Summary: summary, Description: description}
Ref(id, summary, description) ==
    [Ref |-> id, Summary |-> summary, Description |-> description]

\* An inline value (a Schema: its title and its extension fields).
Schema(title, extensions) == [Title |-> title, Extensions |-> extensions]

\* RefOrSpec[T]{Ref: ref, Spec: spec}; a *RefOrSpec[T] that is not nil.
RefOrSpec(T, ref, spec) == [T |-> T, isNil |-> FALSE, Ref |-> ref, Spec |-> spec]

\* (*RefOrSpec[T])(nil): what a map lookup of a missing key returns.
NilRefOrSpec(T) == [T |-> T, isNil |-> TRUE]

-----------------------------------------------------------------------------
(* Bounds and inputs *)

\* Components holds at most MaxEntries entries over all its maps.
MaxEntries == 2

Names == {<<"A">>, <<"B">>}

ComponentRef(field, name) == ComponentsPrefix \o CategoryName(field) \o <<"/">> \o name

\* Some T2 other than T: the category after T's in the Components struct.
OtherField(T) ==
    CASE T = "Schema" -> "Responses"
      [] T = "Response" -> "Parameters"
      [] T = "Parameter" -> "Examples"
      [] T = "Example" -> "RequestBodies"
      [] T = "RequestBody" -> "Headers"
      [] T = "Header" -> "SecuritySchemes"
      [] T = "SecurityScheme" -> "Links"
      [] T = "Link" -> "Callbacks"
      [] T = "Callback" -> "Paths"
      [] T = "PathItem" -> "Schemas"

\* "https://e/s"
RemoteRef == <<"h", "t", "t", "p", "s", ":", "/", "/", "e", "/", "s">>

\* "#/components"
NoSlashRef == <<"#", "/", "c", "o", "m", "p", "o", "n", "e", "n", "t", "s">>

\* "#/components/foo/A"
UnknownCategoryRef == ComponentsPrefix \o <<"f", "o", "o", "/", "A">>

\* Identifiers an entry of kind T is given: its own category's names, and a
\* name of another category.
EntryRefs(T) ==
    {ComponentRef(FieldOf(T), n) : n \in Names} \cup {ComponentRef(OtherField(T), <<"A">>)}

\* Identifiers the container under resolution is given: those, and the
\* malformed ones ("#/components/<category>" has no name part).
CallRefs(T) ==
    EntryRefs(T) \cup
    {RemoteRef, NoSlashRef, UnknownCategoryRef, <<>>,
     ComponentsPrefix \o CategoryName(FieldOf(T))}

EntryValues(T) ==
    {RefOrSpec(T, Nil, Schema(<<"e", "n", "t", "r", "y">>, <<>>))} \cup
    {RefOrSpec(T, Ref(id, <<>>, <<>>), Nil) : id \in EntryRefs(T)}

CallValues(T) ==
    {RefOrSpec(T, Nil, Schema(<<"o", "w", "n">>, <<>>)), RefOrSpec(T, Nil, Nil),
     RefOrSpec(T, Ref(ComponentRef(FieldOf(T), <<"A">>), <<>>, <<>>), Schema(<<"o", "w", "n">>, <<>>))} \cup
    {RefOrSpec(T, Ref(id, <<>>, <<>>), Nil) : id \in CallRefs(T)}

NumEntries(c) ==
    Cardinality(DOMAIN c.Schemas) + Cardinality(DOMAIN c.Responses)
    + Cardinality(DOMAIN c.Parameters) + Cardinality(DOMAIN c.Examples)
    + Cardinality(DOMAIN c.RequestBodies) + Cardinality(DOMAIN c.Headers)
    + Cardinality(DOMAIN c.SecuritySchemes) + Cardinality(DOMAIN c.Links)
    + Cardinality(DOMAIN c.Callbacks) + Cardinality(DOMAIN c.Paths)

-----------------------------------------------------------------------------
(* Components *)

\* m[name] = v on a Go map
MapSet(m, name, v) == [k \in (DOMAIN m) \cup {name} |-> IF k = name THEN v ELSE m[k]]

\* m[name] read from a map[string]*RefOrSpec[T]: the zero value, a nil
\* pointer of the map's element type, when the key is missing
MapGet(m, name, T) == IF name \in DOMAIN m THEN m[name] ELSE NilRefOrSpec(T)

\* Components.Add(name, v): the type switch stores v in the map of its type.
AddTo(c, name, v) ==
    CASE v.T = "Schema" -> [c EXCEPT !.Schemas = MapSet(@, name, v)]
      [] v.T = "Response" -> [c EXCEPT !.Responses = MapSet(@, name, v)]
      [] v.T = "Parameter" -> [c EXCEPT !.Parameters = MapSet(@, name, v)]
      [] v.T = "Example" -> [c EXCEPT !.Examples = MapSet(@, name, v)]
      [] v.T = "RequestBody" -> [c EXCEPT !.RequestBodies = MapSet(@, name, v)]
      [] v.T = "Header" -> [c EXCEPT !.Headers = MapSet(@, name, v)]
      [] v.T = "SecurityScheme" -> [c EXCEPT !.SecuritySchemes = MapSet(@, name, v)]
      [] v.T = "Link" -> [c EXCEPT !.Links = MapSet(@, name, v)]
      [] v.T = "Callback" -> [c EXCEPT !.Callbacks = MapSet(@, name, v)]
      [] v.T = "PathItem" -> [c EXCEPT !.Paths = MapSet(@, name, v)]
      [] OTHER -> c

\* The kinds c has entries of.
Populated(c) == {T \in Kinds : c[FieldOf(T)] # <<>>}

\* A document's entries are taken from one category and the one OtherField names.
Neighbours(Ts) == \E T \in Kinds : \A T2 \in Ts : T2 = T \/ FieldOf(T2) = OtherField(T)

Add(name, v) ==
    /\ pc = "idle"
    /\ components # Nil
    /\ NumEntries(AddTo(components, name, v)) <= MaxEntries
    /\ Neighbours(Populated(components) \cup {v.T})
    /\ components' = AddTo(components, name, v)
    /\ UNCHANGED <<pc, recv, cur, visited, ret, calls, lookups>>
    /\ UNCHANGED <<jsonVars, boolVars, soaVars, paramVars, runVars, concVars>>

-----------------------------------------------------------------------------
(* JSON values, and encoding/json on a Ref and on an inline value *)

JNull == [t |-> "null"]
JBool(b) == [t |-> "bool", b |-> b]
JNum == [t |-> "number"]
JStr(str) == [t |-> "string", v |-> str]
JArr == [t |-> "array"]
\* a JSON object: m maps each member's name to its value
JObj(m) == [t |-> "object", m |-> m]

Restrict(f, S) == [k \in S |-> f[k]]

\* f and g, g's value where both are defined
Merge(f, g) == [k \in (DOMAIN f) \cup (DOMAIN g) |-> IF k \in DOMAIN g THEN g[k] ELSE f[k]]

\* A string field of a struct after json.Unmarshal of object m: the member's
\* value when it is a string, the old value when it is absent, null or of
\* another type (which is an UnmarshalTypeError).
FieldAfter(m, key, old) ==
    IF key \in DOMAIN m /\ m[key].t = "string" THEN m[key].v ELSE old

FieldError(m, key) == key \in DOMAIN m /\ m[key].t \notin {"string", "null"}

ZeroRef == Ref(<<>>, <<>>, <<>>)

\* json.Unmarshal(data, &p) for p a *Ref: null sets p to nil; otherwise p is
\* allocated when nil and decoded into, members the data lacks keeping
\* the value they have.
UnmarshalRef(data, p) ==
    IF data.t = "null" THEN [err |-> FALSE, ptr |-> Nil]
    ELSE
      LET base == IF p = Nil THEN ZeroRef ELSE p IN
      IF data.t # "object" THEN [err |-> TRUE, ptr |-> base]
      ELSE [err |-> \E k \in {"$ref", "summary", "description"} : FieldError(data.m, k),
            ptr |-> Ref(FieldAfter(data.m, "$ref", base.Ref),
                        FieldAfter(data.m, "summary", base.Summary),
                        FieldAfter(data.m, "description", base.Description))]

\* json.Marshal of a *Ref: $ref always, summary and description omitempty
MarshalRef(r) ==
    JObj([k \in {"$ref"} \cup (IF r.Summary # <<>> THEN {"summary"} ELSE {})
                    \cup (IF r.Description # <<>> THEN {"description"} ELSE {}) |->
            CASE k = "$ref" -> JStr(r.Ref)
              [] k = "summary" -> JStr(r.Summary)
              [] k = "description" -> JStr(r.Description)])

ZeroSchema == Schema(<<>>, <<>>)

\* json.Unmarshal(data, &p) for p a *Schema: title is a field, every other
\* member is kept as an extension.
UnmarshalSchema(data, p) ==
    IF data.t = "null" THEN [err |-> FALSE, ptr |-> Nil]
    ELSE
      LET base == IF p = Nil THEN ZeroSchema ELSE p IN
      IF data.t # "object" THEN [err |-> TRUE, ptr |-> base]
      ELSE [err |-> FieldError(data.m, "title"),
            ptr |-> Schema(FieldAfter(data.m, "title", base.Title),
                           Merge(base.Extensions,
                                 Restrict(data.m, (DOMAIN data.m) \ {"title"})))]

\* json.Marshal of a *Schema: title omitempty, the extensions as members
MarshalSchema(sch) ==
    JObj(Merge(sch.Extensions,
               [k \in (IF sch.Title # <<>> THEN {"title"} ELSE {}) |-> JStr(sch.Title)]))

-----------------------------------------------------------------------------
(* RefOrSpec: construction, MarshalJSON, UnmarshalJSON *)

\* var o RefOrSpec[Schema]
ZeroBox == RefOrSpec("Schema", Nil, Nil)

\* NewRefOrSpec[T](v): v is [type |-> "*Ref" | "Ref" | "string" | "nil" | "*T" | "T", v |-> ..],
\* a string argument being [str |-> its characters]
NewRefOrSpecOf(T, v) ==
    CASE v.type = "*Ref" -> RefOrSpec(T, v.v, Nil)
      [] v.type = "Ref" -> RefOrSpec(T, v.v, Nil)
      [] v.type = "string" -> RefOrSpec(T, Ref(v.v.str, <<>>, <<>>), Nil)
      [] v.type = "nil" -> RefOrSpec(T, Nil, Nil)
      [] v.type = "*T" -> RefOrSpec(T, Nil, v.v)
      [] v.type = "T" -> RefOrSpec(T, Nil, v.v)
      [] OTHER -> RefOrSpec(T, Nil, Nil)

\* NewExtendable[T](t)
NewExtendable(t) == Schema(t.Title, <<>>)

\* NewRefOrExtSpec[T](v)
NewRefOrExtSpecOf(T, v) ==
    CASE v.type = "*Ref" -> RefOrSpec(T, v.v, Nil)
      [] v.type = "Ref" -> RefOrSpec(T, v.v, Nil)
      [] v.type = "string" -> RefOrSpec(T, Ref(v.v.str, <<>>, <<>>), Nil)
      [] v.type = "nil" -> RefOrSpec(T, Nil, Nil)
      [] v.type = "*T" -> RefOrSpec(T, Nil, NewExtendable(v.v))
      [] v.type = "T" -> RefOrSpec(T, Nil, NewExtendable(v.v))
      [] OTHER -> RefOrSpec(T, Nil, Nil)

\* MarshalJSONOf that emits the inline value whenever there is one.
MarshalJSONSpecFirst(o) ==
    IF o.Spec # Nil THEN MarshalSchema(o.Spec)
    ELSE IF o.Ref # Nil THEN MarshalRef(o.Ref)
    ELSE JNull

\* o.MarshalJSON(): v is o.Ref when that is set, o.Spec (maybe nil) otherwise
MarshalJSONOf(o) ==
    IF o.Ref # Nil THEN MarshalRef(o.Ref)
    ELSE IF o.Spec # Nil THEN MarshalSchema(o.Spec)
    ELSE JNull

\* UnmarshalJSONOf that commits to the Reference whenever it decodes,
\* without looking at its identifier.
UnmarshalJSONAnyRef(o, data) ==
    LET r == UnmarshalRef(data, o.Ref) IN
    IF ~r.err /\ r.ptr = Nil THEN [res |-> "panic", o |-> [o EXCEPT !.Ref = Nil]]
    ELSE IF ~r.err THEN [res |-> "ok", o |-> [o EXCEPT !.Ref = r.ptr, !.Spec = Nil]]
    ELSE LET sp == UnmarshalSchema(data, o.Spec) IN
         [res |-> IF sp.err THEN "error" ELSE "ok", o |-> [o EXCEPT !.Ref = Nil, !.Spec = sp.ptr]]

\* o.UnmarshalJSON(data): the outcome and the receiver after it.
UnmarshalJSONOf(o, data) ==
    LET r == UnmarshalRef(data, o.Ref) IN
    IF ~r.err /\ r.ptr = Nil
    THEN [res |-> "panic", o |-> [o EXCEPT !.Ref = Nil]]      \* o.Ref.Ref on a nil o.Ref
    ELSE IF ~r.err /\ r.ptr.Ref # <<>>
    THEN [res |-> "ok", o |-> [o EXCEPT !.Ref = r.ptr, !.Spec = Nil]]
    ELSE LET sp == UnmarshalSchema(data, o.Spec) IN
         [res |-> IF sp.err THEN "error" ELSE "ok",
          o |-> [o EXCEPT !.Ref = Nil, !.Spec = sp.ptr]]

\* "#/components/schemas/A", "#/components/schemas/B"
RefA == ComponentRef("Schemas", <<"A">>)
RefB == ComponentRef("Schemas", <<"B">>)

RefValues == {Ref(RefA, <<>>, <<>>), Ref(RefB, <<"s">>, <<"d">>), Ref(<<>>, <<>>, <<>>)}

SchemaValues ==
    {Schema(<<"t">>, <<>>), Schema(<<>>, [k \in {"b"} |-> JStr(<<"b", "a", "r">>)]),
     Schema(<<"t">>, [k \in {"$ref"} |-> JStr(RefA)])}

\* The arguments NewRefOrSpec and NewRefOrExtSpec are called with.
NewArgs ==
    {[type |-> "*Ref", v |-> r] : r \in RefValues \cup {Nil}}
    \cup {[type |-> "Ref", v |-> r] : r \in RefValues}
    \cup {[type |-> "string", v |-> [str |-> id]] : id \in {<<>>, RefA, RefB}}
    \cup {[type |-> "nil", v |-> Nil]}
    \cup {[type |-> "*T", v |-> x] : x \in SchemaValues}
    \cup {[type |-> "T", v |-> x] : x \in SchemaValues}

\* The JSON texts UnmarshalJSON is given: objects with and without $ref
\* (empty, of the wrong type), with members of a Reference and of an inline
\* value, and the values that are no object.
JSONObjects ==
    {JObj(Merge(Merge(r, sm), Merge(ti, b))) :
        r \in {<<>>} \cup {[k \in {"$ref"} |-> x] : x \in {JStr(<<>>), JStr(RefA), JStr(RefB), JNum}},
        sm \in {<<>>, [k \in {"summary"} |-> JStr(<<"s">>)]},
        ti \in {<<>>} \cup {[k \in {"title"} |-> x] : x \in {JStr(<<"t">>), JNum}},
        b \in {<<>>, [k \in {"b"} |-> JStr(<<"b", "a", "r">>)]}}

JSONInputs ==
    JSONObjects
    \cup {JObj([k \in {"$ref", "description"} |-> IF k = "$ref" THEN JStr(RefA) ELSE JStr(<<"d">>)]),
          JObj([k \in {"$ref", "summary"} |-> IF k = "$ref" THEN JStr(RefA) ELSE JNum])}
    \cup {JNull, JBool(TRUE), JBool(FALSE), JNum, JStr(<<"x">>), JArr}

InitJSONVars ==
    /\ box = ZeroBox
    /\ origin = "zero"
    /\ enc = Nil
    /\ before = Nil
    /\ jin = Nil
    /\ jres = "none"

-----------------------------------------------------------------------------
(* BoolOrSchema, and the testAD struct that holds one behind a pointer *)

BoolOrSchema(schema, allowed) == [Schema |-> schema, Allowed |-> allowed]

\* json.Unmarshal(data, &o.Allowed): a boolean is stored, null is a no-op,
\* anything else is an UnmarshalTypeError
UnmarshalBool(data, old) ==
    IF data.t = "bool" THEN [err |-> FALSE, val |-> data.b]
    ELSE IF data.t = "null" THEN [err |-> FALSE, val |-> old]
    ELSE [err |-> TRUE, val |-> old]

\* json.Unmarshal(data, &o.Schema): null sets the pointer to nil; otherwise
\* the pointer is allocated when nil and its UnmarshalJSON is called
UnmarshalSchemaPtr(data, p) ==
    IF data.t = "null" THEN [res |-> "ok", ptr |-> Nil]
    ELSE LET r == UnmarshalJSONOf(IF p = Nil THEN ZeroBox ELSE p, data) IN
         [res |-> r.res, ptr |-> r.o]

\* BoolOrSchemaUnmarshalJSON that leaves Allowed as it was after decoding
\* a schema.
BoolOrSchemaUnmarshalJSONKeepFlag(o, data) ==
    LET b == UnmarshalBool(data, o.Allowed) IN
    IF ~b.err THEN [res |-> "ok", o |-> BoolOrSchema(Nil, b.val)]
    ELSE LET s == UnmarshalSchemaPtr(data, o.Schema) IN
         [res |-> s.res, o |-> BoolOrSchema(s.ptr, o.Allowed)]

\* (o *BoolOrSchema).UnmarshalJSON(data): the outcome and the receiver after it
BoolOrSchemaUnmarshalJSON(o, data) ==
    LET b == UnmarshalBool(data, o.Allowed) IN
    IF ~b.err THEN [res |-> "ok", o |-> BoolOrSchema(Nil, b.val)]
    ELSE LET s == UnmarshalSchemaPtr(data, o.Schema) IN
         IF s.res # "ok" THEN [res |-> s.res, o |-> BoolOrSchema(s.ptr, o.Allowed)]
         ELSE [res |-> "ok", o |-> BoolOrSchema(s.ptr, TRUE)]

\* NewBoolOrSchema(v): v is [type |-> "bool", v |-> [b |-> a boolean]],
\* [type |-> "*RefOrSpec", v |-> a container], [type |-> "*SchemaBuilder",
\* v |-> the container its Build returns] or of another type; the result is
\* Nil for a nil *BoolOrSchema
NewBoolOrSchemaOf(v) ==
    CASE v.type = "bool" -> BoolOrSchema(Nil, v.v.b)
      [] v.type = "*RefOrSpec" -> BoolOrSchema(v.v, FALSE)
      [] v.type = "*SchemaBuilder" -> BoolOrSchema(v.v, FALSE)
      [] OTHER -> Nil

\* (o *BoolOrSchema).MarshalJSON()
BoolOrSchemaMarshalJSON(o) ==
    IF o.Schema # Nil THEN MarshalJSONOf(o.Schema) ELSE JBool(o.Allowed)

testAD(ap, name) == [AP |-> ap, Name |-> name]

\* var v testAD
ZeroAD == testAD(Nil, <<>>)

\* json.Unmarshal(data, &v) for v a testAD: an absent "ap" leaves AP as it
\* is, null sets it to nil, any other value is handed to UnmarshalJSON of
\* the BoolOrSchema that AP points to, allocated when AP is nil.
UnmarshalTestAD(data, v) ==
    IF data.t # "object" THEN [res |-> "error", v |-> v]
    ELSE
      LET m == data.m
          name == FieldAfter(m, "name", v.Name)
          nameErr == FieldError(m, "name")
      IN IF "ap" \notin DOMAIN m
         THEN [res |-> IF nameErr THEN "error" ELSE "ok", v |-> testAD(v.AP, name)]
         ELSE IF m["ap"].t = "null"
         THEN [res |-> IF nameErr THEN "error" ELSE "ok", v |-> testAD(Nil, name)]
         ELSE LET r == BoolOrSchemaUnmarshalJSON(
                          IF v.AP = Nil THEN BoolOrSchema(Nil, FALSE) ELSE v.AP, m["ap"])
              IN [res |-> IF r.res # "ok" \/ nameErr THEN "error" ELSE "ok",
                  v |-> testAD(r.o, name)]

\* json.Marshal(&v) for v a testAD: both members are omitempty, and a
\* non-nil AP is never empty
MarshalTestAD(v) ==
    JObj([k \in (IF v.AP # Nil THEN {"ap"} ELSE {})
                \cup (IF v.Name # <<>> THEN {"name"} ELSE {}) |->
            IF k = "ap" THEN BoolOrSchemaMarshalJSON(v.AP) ELSE JStr(v.Name)])

\* The documents a testAD is decoded from: with and without "name", without
\* "ap" and with "ap" a boolean, null, an object or another value.
APObjects ==
    {JObj(Merge(Merge(r, sm), ti)) :
        r \in {<<>>} \cup {[k \in {"$ref"} |-> x] : x \in {JStr(<<>>), JStr(RefA)}},
        sm \in {<<>>, [k \in {"summary"} |-> JStr(<<"s">>)]},
        ti \in {<<>>} \cup {[k \in {"title"} |-> x] : x \in {JStr(<<"t">>), JNum}}}

APInputs == APObjects \cup {JNull, JBool(TRUE), JBool(FALSE), JNum, JStr(<<"x">>)}

ADInputs ==
    {JObj(Merge(n, a)) :
        n \in {<<>>, [k \in {"name"} |-> JStr(<<"f", "o", "o">>)]},
        a \in {<<>>} \cup {[k \in {"ap"} |-> x] : x \in APInputs}}

\* The arguments NewBoolOrSchema is called with.
NewBoolArgs ==
    {[type |-> "bool", v |-> [b |-> x]] : x \in BOOLEAN}
    \cup {[type |-> t, v |-> RefOrSpec("Schema", Nil, Schema(<<"t">>, <<>>))] :
             t \in {"*RefOrSpec", "*SchemaBuilder"}}
    \cup {[type |-> "*RefOrSpec", v |-> RefOrSpec("Schema", Ref(RefA, <<>>, <<>>), Nil)]}
    \cup {[type |-> "string", v |-> [str |-> <<"x">>]]}

InitBoolVars ==
    /\ ad = ZeroAD
    /\ adbefore = Nil
    /\ adin = Nil
    /\ adres = "none"
    /\ adout = Nil
    /\ adnew = Nil

-----------------------------------------------------------------------------
(* SingleOrArray[string] *)

\* A Go slice of strings: the nil slice and an empty slice are different values
Slice(elems) == [nilSlice |-> FALSE, elems |-> elems]
NilSlice == [nilSlice |-> TRUE, elems |-> <<>>]

\* a JSON array with its elements
JArrOf(es) == [t |-> "array", a |-> es]

\* NewSingleOrArray[string](v...): the variadic slice converted, nil when
\* there are no arguments
NewSingleOrArrayOf(v) == v

\* json.Unmarshal(data, &ret) for ret a nil []string: null leaves it nil, an
\* array of strings (null elements giving "") is stored, an empty array
\* giving an empty non-nil slice; anything else is an error
UnmarshalSlice(data) ==
    IF data.t = "null" THEN [err |-> FALSE, val |-> NilSlice]
    ELSE IF data.t # "array" THEN [err |-> TRUE, val |-> NilSlice]
    ELSE [err |-> \E i \in DOMAIN data.a : data.a[i].t \notin {"string", "null"},
          val |-> Slice([i \in DOMAIN data.a |->
                            IF data.a[i].t = "string" THEN data.a[i].v ELSE <<>>])]

\* json.Unmarshal(data, &s) for s a zero string
UnmarshalString(data) ==
    IF data.t = "string" THEN [err |-> FALSE, val |-> data.v]
    ELSE IF data.t = "null" THEN [err |-> FALSE, val |-> <<>>]
    ELSE [err |-> TRUE, val |-> <<>>]

\* (o *SingleOrArray[T]).UnmarshalJSON(data): the outcome and *o after it
SingleOrArrayUnmarshalJSON(o, data) ==
    LET r == UnmarshalSlice(data) IN
    IF ~r.err THEN [res |-> "ok", o |-> r.val]
    ELSE LET str == UnmarshalString(data) IN
         IF str.err THEN [res |-> "error", o |-> o]
         ELSE [res |-> "ok", o |-> Slice(<<str.val>>)]

\* SingleOrArrayMarshalJSON that emits the sequence whatever its length.
SingleOrArrayMarshalJSONAlwaysSequence(o) ==
    IF o.nilSlice THEN JNull
    ELSE JArrOf([i \in DOMAIN o.elems |-> JStr(o.elems[i])])

\* (o *SingleOrArray[T]).MarshalJSON(): the element when there is one, the
\* slice otherwise; json.Marshal of a nil slice is null
SingleOrArrayMarshalJSON(o) ==
    IF Len(o.elems) = 1 THEN JStr(o.elems[1])
    ELSE IF o.nilSlice THEN JNull
    ELSE JArrOf([i \in DOMAIN o.elems |-> JStr(o.elems[i])])

\* (o *SingleOrArray[T]).Add(v...): append(*o, v...)
SingleOrArrayAdd(o, v) ==
    [nilSlice |-> o.nilSlice /\ Len(v.elems) = 0, elems |-> o.elems \o v.elems]

MaxElems == 3

Scalars == {<<>>, <<"x">>, <<"y">>}

\* slices of at most n scalars
RECURSIVE SeqsUpTo(_)
SeqsUpTo(n) ==
    IF n = 0 THEN {<<>>}
    ELSE SeqsUpTo(n - 1) \cup {Append(q, x) : q \in {r \in SeqsUpTo(n - 1) : Len(r) = n - 1}, x \in Scalars}

\* variadic arguments: none (a nil slice), some, or an existing empty slice spread
VariadicArgs == {NilSlice} \cup {Slice(q) : q \in SeqsUpTo(2)}

\* The JSON texts SingleOrArray.UnmarshalJSON is given
SOAInputs ==
    {JNull, JNum, JBool(TRUE), JObj(<<>>)}
    \cup {JStr(x) : x \in Scalars}
    \cup {JArrOf([i \in DOMAIN q |-> JStr(q[i])]) : q \in SeqsUpTo(2)}
    \cup {JArrOf(<<JStr(<<"x">>), JNum>>), JArrOf(<<JNull, JStr(<<"y">>)>>), JArrOf(<<JNum>>)}

InitSOAVars ==
    /\ soa = NilSlice
    /\ soaenc = Nil
    /\ soain = Nil
    /\ soares = "none"

-----------------------------------------------------------------------------
(* The Validator and the Parameter of a specification that validates none *)

\* &Validator{visited: .., ...}: the identifiers visited, and what the run
\* did: the locations at which an inline value's rules were checked, the
\* calls of ValidateData, and the calls of GetSpec on a Reference, in order
Validator(visitedObjects, checked, data) ==
    [visited |-> visitedObjects, checked |-> checked, data |-> data, resolved |-> <<>>]

\* a call of o.GetSpec on the Reference id, made by `by`
Attempt(id, by) == [id |-> id, by |-> by]

NewValidator == Validator({}, <<>>, <<>>)

InitParamVars ==
    /\ param = Nil
    /\ reject = {}
    /\ pres = [skip \in BOOLEAN |-> Nil]

\* a run: where it is, its Validator, the diagnostics it has, the parts of
\* the document it has still to validate and the ones it validated, in order
Run(runpc, v, errs, todo, steps) ==
    [pc |-> runpc, v |-> v, errs |-> errs, todo |-> todo, steps |-> steps]

RunIds == {1, 2}

InitConcVars == runs = [r \in RunIds |-> Run("idle", NewValidator, <<>>, {}, <<>>)]

InitRunVars ==
    /\ vrun = NewValidator
    /\ verrs = <<>>
    /\ vlast = Nil
    /\ vpc = "idle"
    /\ vdoc = <<>>
    /\ vtodo = {}
    /\ vcalls = <<>>

-----------------------------------------------------------------------------
(* RefOrSpec.GetSpec *)

\* NewSpecNotFoundError(message, visited): the message's constant part, and
\* the visited identifiers as they are when the error is made.
NewSpecNotFoundError(message, visitedObjects) ==
    [type |-> "SpecNotFoundError", message |-> message, visitedObjects |-> visitedObjects]

MsgNilRef == "nil Ref"
MsgCycle == "cycle ref detected"
MsgRemote == "loading outside of components is not implemented for the ref"
MsgComponentsRequired == "components is required, but got nil"
MsgIncorrectRef == "incorrect ref"
MsgUnexpectedComponent == "unexpected component"
MsgTypeMismatch == "expected spec of type, but got"

\* The switch on parts[0] in getSpec: the entry read from the category's map
\* (a nil pointer of the map's element type when objName is no key), or
\* Nil when no case matches and the default branch returns the error.
ComponentLookup(c, category, objName) ==
    CASE category = S_schemas -> MapGet(c.Schemas, objName, "Schema")
      [] category = S_responses -> MapGet(c.Responses, objName, "Response")
      [] category = S_parameters -> MapGet(c.Parameters, objName, "Parameter")
      [] category = S_examples -> MapGet(c.Examples, objName, "Example")
      [] category = S_requestBodies -> MapGet(c.RequestBodies, objName, "RequestBody")
      [] category = S_headers -> MapGet(c.Headers, objName, "Header")
      [] category = S_links -> MapGet(c.Links, objName, "Link")
      [] category = S_callbacks -> MapGet(c.Callbacks, objName, "Callback")
      [] category = S_paths -> MapGet(c.Paths, objName, "PathItem")
      [] OTHER -> Nil

\* GuardError without the visited guard.
GuardErrorNoCycle(o, c, seen) ==
    IF o.Ref = Nil THEN MsgNilRef
    ELSE IF ~HasPrefix(o.Ref.Ref, ComponentsPrefix) THEN MsgRemote
    ELSE IF c = Nil THEN MsgComponentsRequired
    ELSE ""

\* GuardError with the nil-components guard before the prefix guard.
GuardErrorNilFirst(o, c, seen) ==
    IF o.Ref = Nil THEN MsgNilRef
    ELSE IF o.Ref.Ref \in seen THEN MsgCycle
    ELSE IF c = Nil THEN MsgComponentsRequired
    ELSE IF ~HasPrefix(o.Ref.Ref, ComponentsPrefix) THEN MsgRemote
    ELSE ""

\* The guards of getSpec, in the order of its switch: the error message of
\* the first guard that applies, "" when none does.
GuardError(o, c, seen) ==
    IF o.Ref = Nil THEN MsgNilRef
    ELSE IF o.Ref.Ref \in seen THEN MsgCycle
    ELSE IF ~HasPrefix(o.Ref.Ref, ComponentsPrefix) THEN MsgRemote
    ELSE IF c = Nil THEN MsgComponentsRequired
    ELSE ""

\* One invocation of getSpec on receiver o: what it does after its guards
\* passed and it marked o.Ref.Ref visited. step is "return", "panic" or "recurse".
GetSpecBody(o, c, seen) ==
    LET parts == SplitN2(SubSeq(o.Ref.Ref, PrefixLen + 1, Len(o.Ref.Ref))) IN
    IF Len(parts) # 2
    THEN [step |-> "return", val |-> Nil, looked |-> 0, next |-> Nil,
          err |-> NewSpecNotFoundError(MsgIncorrectRef, seen)]
    ELSE
      LET ref == ComponentLookup(c, parts[1], parts[2]) IN
      IF ref = Nil
      THEN [step |-> "return", val |-> Nil, looked |-> 0, next |-> Nil,
            err |-> NewSpecNotFoundError(MsgUnexpectedComponent, seen)]
      ELSE IF ref.T # o.T   \* obj, ok := ref.(*RefOrSpec[T])
      THEN [step |-> "return", val |-> Nil, looked |-> 1, next |-> Nil,
            err |-> NewSpecNotFoundError(MsgTypeMismatch, seen)]
      ELSE IF ref.isNil     \* obj.Spec on a nil obj
      THEN [step |-> "panic", val |-> Nil, looked |-> 1, next |-> Nil, err |-> Nil]
      ELSE IF ref.Spec # Nil
      THEN [step |-> "return", val |-> ref.Spec, looked |-> 1, next |-> Nil, err |-> Nil]
      ELSE [step |-> "recurse", val |-> Nil, looked |-> 1, next |-> ref, err |-> Nil]

NoResult == [val |-> Nil, err |-> Nil]

\* o.GetSpec(c): o.getSpec(c, make(visitedObjects)) is about to run.
GetSpec(o) ==
    /\ pc = "idle"
    /\ pc' = "getSpec"
    /\ recv' = o
    /\ cur' = o
    /\ visited' = {}
    /\ calls' = 0
    /\ lookups' = 0
    /\ ret' = NoResult
    /\ UNCHANGED components
    /\ UNCHANGED <<jsonVars, boolVars, soaVars, paramVars, runVars, concVars>>

\* One invocation of o.getSpec(c, visited), o being cur.
getSpec ==
    /\ pc = "getSpec"
    /\ calls' = calls + 1
    /\ IF cur.Spec # Nil
       THEN /\ pc' = "done"
            /\ ret' = [val |-> cur.Spec, err |-> Nil]
            /\ UNCHANGED <<visited, cur, lookups>>
       ELSE IF GuardError(cur, components, visited) # ""
       THEN /\ pc' = "done"
            /\ ret' = [val |-> Nil,
                       err |-> NewSpecNotFoundError(GuardError(cur, components, visited), visited)]
            /\ UNCHANGED <<visited, cur, lookups>>
       ELSE LET seen == visited \cup {cur.Ref.Ref}
                b == GetSpecBody(cur, components, seen)
            IN /\ visited' = seen
               /\ lookups' = lookups + b.looked
               /\ pc' = CASE b.step = "return" -> "done"
                          [] b.step = "panic" -> "panic"
                          [] b.step = "recurse" -> "getSpec"
               /\ ret' = [val |-> b.val, err |-> b.err]
               /\ cur' = IF b.step = "recurse" THEN b.next ELSE cur
    /\ UNCHANGED <<components, recv>>
    /\ UNCHANGED <<jsonVars, boolVars, soaVars, paramVars, runVars, concVars>>

InitResolve ==
    /\ components \in {Nil, EmptyComponents}
    /\ pc = "idle"
    /\ recv = Nil
    /\ cur = Nil
    /\ visited = {}
    /\ ret = NoResult
    /\ calls = 0
    /\ lookups = 0
    /\ InitJSONVars
    /\ InitBoolVars
    /\ InitSOAVars
    /\ InitParamVars
    /\ InitRunVars
    /\ InitConcVars

NextResolve ==
    \/ pc = "idle" /\ \E T \in Kinds, name \in Names : \E v \in EntryValues(T) : Add(name, v)
    \/ pc = "idle" /\ \E T \in Kinds : \E o \in CallValues(T) : GetSpec(o)
    \/ getSpec

SpecResolve == InitResolve /\ [][NextResolve]_vars

-----------------------------------------------------------------------------
(* Encoding and decoding a RefOrSpec *)

Built(o, how) ==
    /\ jres # "panic"
    /\ box' = o
    /\ origin' = how
    /\ enc' = Nil
    /\ before' = Nil
    /\ jin' = Nil
    /\ jres' = "none"
    /\ UNCHANGED <<resolveVars, boolVars, soaVars, paramVars, runVars, concVars>>

NewRefOrSpec(v) == Built(NewRefOrSpecOf("Schema", v), "new")

NewRefOrExtSpec(v) == Built(NewRefOrExtSpecOf("Response", v), "new")

\* RefOrSpec[Schema]{Ref: ref, Spec: spec}: both fields are exported
Literal(ref, spec) == Built(RefOrSpec("Schema", ref, spec), "literal")

MarshalJSON ==
    /\ jres # "panic"
    /\ enc' = [of |-> box, origin |-> origin, json |-> MarshalJSONOf(box)]
    /\ before' = Nil
    /\ jin' = Nil
    /\ jres' = "none"
    /\ UNCHANGED <<box, origin>>
    /\ UNCHANGED <<resolveVars, boolVars, soaVars, paramVars, runVars, concVars>>

\* target.UnmarshalJSON(data), target being box or a new zero value
UnmarshalJSON(target, data) ==
    /\ jres # "panic"
    /\ before' = target
    /\ jin' = data
    /\ box' = UnmarshalJSONOf(target, data).o
    /\ jres' = UnmarshalJSONOf(target, data).res
    /\ origin' = "decoded"
    /\ enc' = IF enc # Nil /\ data = enc.json THEN enc ELSE Nil
    /\ UNCHANGED <<resolveVars, boolVars, soaVars, paramVars, runVars, concVars>>

InitJSON ==
    /\ components = Nil
    /\ pc = "idle"
    /\ recv = Nil
    /\ cur = Nil
    /\ visited = {}
    /\ ret = NoResult
    /\ calls = 0
    /\ lookups = 0
    /\ InitJSONVars
    /\ InitBoolVars
    /\ InitSOAVars
    /\ InitParamVars
    /\ InitRunVars
    /\ InitConcVars

NextJSON ==
    \/ \E v \in NewArgs : NewRefOrSpec(v)
    \/ \E v \in NewArgs : NewRefOrExtSpec(v)
    \/ \E ref \in RefValues \cup {Nil}, spec \in SchemaValues \cup {Nil} : Literal(ref, spec)
    \/ MarshalJSON
    \/ \E target \in {box, [ZeroBox EXCEPT !.T = box.T]} :
          \E data \in JSONInputs \cup (IF enc = Nil THEN {} ELSE {enc.json}) :
             UnmarshalJSON(target, data)

SpecJSON == InitJSON /\ [][NextJSON]_vars

-----------------------------------------------------------------------------
(* Decoding and encoding a testAD *)

\* json.Unmarshal(data, &target), target being ad or a new zero value
UnmarshalAD(target, data) ==
    /\ adbefore' = target
    /\ adin' = data
    /\ ad' = UnmarshalTestAD(data, target).v
    /\ adres' = UnmarshalTestAD(data, target).res
    /\ adout' = Nil
    /\ adnew' = IF adnew # Nil /\ ad.AP = adnew.val /\ data = adout THEN adnew ELSE Nil
    /\ UNCHANGED <<resolveVars, jsonVars, soaVars, paramVars, runVars, concVars>>

\* ad = testAD{AP: NewBoolOrSchema(v)}
NewBoolOrSchema(v) ==
    /\ adnew' = [arg |-> v, val |-> NewBoolOrSchemaOf(v)]
    /\ ad' = testAD(NewBoolOrSchemaOf(v), <<>>)
    /\ adbefore' = Nil
    /\ adin' = Nil
    /\ adres' = "none"
    /\ adout' = Nil
    /\ UNCHANGED <<resolveVars, jsonVars, soaVars, paramVars, runVars, concVars>>

\* json.Marshal(&ad)
MarshalAD ==
    /\ adout = Nil
    /\ adout' = MarshalTestAD(ad)
    /\ UNCHANGED <<ad, adbefore, adin, adres, adnew>>
    /\ UNCHANGED <<resolveVars, jsonVars, soaVars, paramVars, runVars, concVars>>

InitBool ==
    /\ components = Nil
    /\ pc = "idle"
    /\ recv = Nil
    /\ cur = Nil
    /\ visited = {}
    /\ ret = NoResult
    /\ calls = 0
    /\ lookups = 0
    /\ InitJSONVars
    /\ InitBoolVars
    /\ InitSOAVars
    /\ InitParamVars
    /\ InitRunVars
    /\ InitConcVars

NextBool ==
    \/ \E target \in {ad, ZeroAD} :
          \E data \in ADInputs \cup (IF adout = Nil THEN {} ELSE {adout}) :
             UnmarshalAD(target, data)
    \/ MarshalAD
    \/ \E v \in NewBoolArgs : NewBoolOrSchema(v)

SpecBool == InitBool /\ [][NextBool]_vars

-----------------------------------------------------------------------------
(* Building, encoding and decoding a SingleOrArray *)

NewSingleOrArray(v) ==
    /\ soa' = NewSingleOrArrayOf(v)
    /\ soaenc' = Nil
    /\ soain' = Nil
    /\ soares' = "none"
    /\ UNCHANGED <<resolveVars, jsonVars, boolVars, paramVars, runVars, concVars>>

SOAAdd(v) ==
    /\ Len(soa.elems) + Len(v.elems) <= MaxElems
    /\ soa' = SingleOrArrayAdd(soa, v)
    /\ soaenc' = Nil
    /\ soain' = Nil
    /\ soares' = "none"
    /\ UNCHANGED <<resolveVars, jsonVars, boolVars, paramVars, runVars, concVars>>

SOAMarshalJSON ==
    /\ soaenc' = [of |-> soa, json |-> SingleOrArrayMarshalJSON(soa)]
    /\ soain' = Nil
    /\ soares' = "none"
    /\ UNCHANGED soa
    /\ UNCHANGED <<resolveVars, jsonVars, boolVars, paramVars, runVars, concVars>>

SOAUnmarshalJSON(data) ==
    /\ soain' = data
    /\ soa' = SingleOrArrayUnmarshalJSON(soa, data).o
    /\ soares' = SingleOrArrayUnmarshalJSON(soa, data).res
    /\ soaenc' = IF soaenc # Nil /\ data = soaenc.json THEN soaenc ELSE Nil
    /\ UNCHANGED <<resolveVars, jsonVars, boolVars, paramVars, runVars, concVars>>

InitSOA ==
    /\ components = Nil
    /\ pc = "idle"
    /\ recv = Nil
    /\ cur = Nil
    /\ visited = {}
    /\ ret = NoResult
    /\ calls = 0
    /\ lookups = 0
    /\ InitJSONVars
    /\ InitBoolVars
    /\ InitSOAVars
    /\ InitParamVars
    /\ InitRunVars
    /\ InitConcVars

NextSOA ==
    \/ \E v \in VariadicArgs : NewSingleOrArray(v)
    \/ \E v \in VariadicArgs : SOAAdd(v)
    \/ SOAMarshalJSON
    \/ \E data \in SOAInputs \cup (IF soaenc = Nil THEN {} ELSE {soaenc.json}) :
          SOAUnmarshalJSON(data)

SpecSOA == InitSOA /\ [][NextSOA]_vars

-----------------------------------------------------------------------------
(* Validation: diagnostics, RefOrSpec.validateSpec *)

\* joinLoc(location, segments...): a location is the sequence of its segments
joinLoc(location, segments) == location \o segments

\* an error value with the constant part of its message
ErrorOf(message) == [type |-> "error", message |-> message]

\* newValidationError(location, err)
newValidationError(location, err) == [loc |-> location, err |-> err]

\* o.getSpec(c, visited) run to its end: what it returns, or that it panics
RECURSIVE getSpecOf(_, _, _)
getSpecOf(o, c, seen) ==
    IF o.Spec # Nil THEN [res |-> "ok", val |-> o.Spec, err |-> Nil]
    ELSE IF GuardError(o, c, seen) # ""
    THEN [res |-> "error", val |-> Nil,
          err |-> NewSpecNotFoundError(GuardError(o, c, seen), seen)]
    ELSE LET seen2 == seen \cup {o.Ref.Ref}
             b == GetSpecBody(o, c, seen2)
         IN CASE b.step = "return" ->
                   [res |-> IF b.err = Nil THEN "ok" ELSE "error", val |-> b.val, err |-> b.err]
              [] b.step = "panic" -> [res |-> "panic", val |-> Nil, err |-> Nil]
              [] b.step = "recurse" -> getSpecOf(b.next, c, seen2)

\* o.GetSpec(c)
GetSpecOf(o, c) == getSpecOf(o, c, {})

\* the title of an inline value that breaks a rule of its kind
BadTitle == <<"b", "a", "d">>

\* spec.validateSpec(location, validator) of an inline value: the rules of
\* its kind, of which the model keeps one
LeafValidateSpec(spec, location) ==
    IF spec.Title = BadTitle THEN <<newValidationError(location, ErrorOf("rule"))>> ELSE <<>>

\* any(o.Spec).(validatable)
Validatable(T) == T # "Unvalidatable"

ErrUnsupportedSpecType == ErrorOf("unsupported spec type")

\* what a validateSpec call gives: its diagnostics and the Validator after
\* it, or that it panicked
Outcome(errs, v) == [errs |-> errs, v |-> v, panic |-> FALSE]
Panicked(v) == [errs |-> <<>>, v |-> v, panic |-> TRUE]

\* RefOrSpecValidateSpec with the visited identifiers of all runs in one
\* package-level map
RefOrSpecValidateSpecShared(o, location, v, c) ==
    IF o.Spec # Nil
    THEN IF Validatable(o.T)
         THEN Outcome(LeafValidateSpec(o.Spec, location),
                      [v EXCEPT !.checked = Append(@, location)])
         ELSE Outcome(<<newValidationError(location, ErrUnsupportedSpecType)>>, v)
    ELSE IF o.Ref = Nil THEN Panicked(v)
    ELSE IF o.Ref.Ref \in v.visited \cup UNION {runs[r].v.visited : r \in DOMAIN runs}
    THEN Outcome(<<>>, v)
    ELSE LET v2 == [v EXCEPT !.visited = @ \cup {o.Ref.Ref},
                             !.resolved = Append(@, Attempt(o.Ref.Ref, "validateSpec"))]
             r == GetSpecOf(o, c)
         IN CASE r.res = "panic" -> Panicked(v2)
              [] r.res = "error" -> Outcome(<<newValidationError(location, r.err)>>, v2)
              [] r.res = "ok" -> Outcome(<<>>, v2)

\* RefOrSpecValidateSpec that does not mark the identifier visited before it
\* resolves: a Reference that resolves is validated again without end, until
\* the stack is exhausted
RefOrSpecValidateSpecUnmarked(o, location, v, c) ==
    IF o.Spec # Nil
    THEN IF Validatable(o.T)
         THEN Outcome(LeafValidateSpec(o.Spec, location),
                      [v EXCEPT !.checked = Append(@, location)])
         ELSE Outcome(<<newValidationError(location, ErrUnsupportedSpecType)>>, v)
    ELSE IF o.Ref = Nil THEN Panicked(v)
    ELSE IF o.Ref.Ref \in v.visited THEN Outcome(<<>>, v)
    ELSE LET v2 == [v EXCEPT !.resolved = Append(@, Attempt(o.Ref.Ref, "validateSpec"))]
             r == GetSpecOf(o, c)
         IN CASE r.res = "panic" -> Panicked(v2)
              [] r.res = "error" -> Outcome(<<newValidationError(location, r.err)>>, v2)
              [] r.res = "ok" -> Panicked(v2)

\* RefOrSpecValidateSpec without the test of validator.visited: a Reference
\* is resolved every time the run comes to it
RefOrSpecValidateSpecRevisit(o, location, v, c) ==
    IF o.Spec # Nil
    THEN IF Validatable(o.T)
         THEN Outcome(LeafValidateSpec(o.Spec, location),
                      [v EXCEPT !.checked = Append(@, location)])
         ELSE Outcome(<<newValidationError(location, ErrUnsupportedSpecType)>>, v)
    ELSE IF o.Ref = Nil THEN Panicked(v)
    ELSE LET v2 == [v EXCEPT !.visited = @ \cup {o.Ref.Ref},
                             !.resolved = Append(@, Attempt(o.Ref.Ref, "validateSpec"))]
             r == GetSpecOf(o, c)
         IN CASE r.res = "panic" -> Panicked(v2)
              [] r.res = "error" -> Outcome(<<newValidationError(location, r.err)>>, v2)
              [] r.res = "ok" -> Outcome(<<>>, v2)

\* o.validateSpec(location, validator) for o a *RefOrSpec[T], c being
\* validator.spec.Spec.Components
RECURSIVE RefOrSpecValidateSpec(_, _, _, _)
RefOrSpecValidateSpec(o, location, v, c) ==
    IF o.Spec # Nil
    THEN IF Validatable(o.T)
         THEN Outcome(LeafValidateSpec(o.Spec, location),
                      [v EXCEPT !.checked = Append(@, location)])
         ELSE Outcome(<<newValidationError(location, ErrUnsupportedSpecType)>>, v)
    ELSE IF o.Ref = Nil THEN Panicked(v)          \* o.Ref.Ref on a nil o.Ref
    ELSE IF o.Ref.Ref \in v.visited THEN Outcome(<<>>, v)
    ELSE LET v2 == [v EXCEPT !.visited = @ \cup {o.Ref.Ref},
                             !.resolved = Append(@, Attempt(o.Ref.Ref, "validateSpec"))]
             r == GetSpecOf(o, c)
         IN CASE r.res = "panic" -> Panicked(v2)
              [] r.res = "error" -> Outcome(<<newValidationError(location, r.err)>>, v2)
              [] r.res = "ok" -> RefOrSpecValidateSpec(o, location, v2, c)

-----------------------------------------------------------------------------
(* Parameter.validateSpec *)

InPath == "path"
InQuery == "query"
InHeader == "header"
InCookie == "cookie"

StyleMatrix == "matrix"
StyleLabel == "label"
StyleForm == "form"
StyleSimple == "simple"
StyleSpaceDelimited == "spaceDelimited"
StylePipeDelimited == "pipeDelimited"
StyleDeepObject == "deepObject"

\* ":/?#[]@!$&'()*+,;="
ReservedCharacters ==
    {":", "/", "?", "#", "[", "]", "@", "!", "$", "&", "'", "(", ")", "*", "+", ",", ";", "="}

\* PathNamePattern.MatchString(name) for the pattern `[^/#?]+$`, which is
\* not anchored at the start: some non-empty run of characters other than
\* '/', '#' and '?' ends the name
PathNamePatternMatch(name) ==
    \E i \in 1..Len(name) : \A j \in i..Len(name) : name[j] \notin {"/", "#", "?"}

\* strings.ContainsAny(str, chars)
ContainsAny(str, chars) == \E i \in 1..Len(str) : str[i] \in chars

ErrRequired == ErrorOf("required")
ErrMutuallyExclusive == ErrorOf("mutually exclusive")
ErrContentCount == ErrorOf("invalid number of items, expected only one")
ErrInInvalid == ErrorOf("invalid value, expected one of [query, header, path, cookie]")
ErrStyleOnlyPath == ErrorOf("only allowed when `in` is 'path'")
ErrStyleOnlyQueryCookie == ErrorOf("only allowed when `in` is 'query' or 'cookie'")
ErrStyleOnlyPathHeader == ErrorOf("only allowed when `in` is 'path' or 'header'")
ErrOnlyQuery == ErrorOf("only allowed when `in` is 'query'")
ErrStyleInvalid == ErrorOf("invalid value, expected one of the styles")
ErrNamePattern == ErrorOf("must match pattern")
ErrNameReserved == ErrorOf("contains reserved characters")
ErrRequiredInPath == ErrorOf("must be `true` when `in` is 'path'")
ErrNoSchema == ErrorOf("unable to validate examples without schema or content")

\* a non-nil value of type any
AnyValue(x) == [val |-> x]

\* a map: nil, or with the entries of m
MapOf(m) == [isNil |-> FALSE, m |-> m]
NilMap == [isNil |-> TRUE, m |-> <<>>]

\* &Extendable[MediaType]{Spec: &MediaType{Schema: schema}}
MediaType(schema) == [Schema |-> schema]

\* &Extendable[Example]{Spec: &Example{Value: value}}
Example(value) == [Value |-> value]

\* (o *RefOrSpec[T]).getLocationOrRef(location); the receiver may be nil
getLocationOrRef(o, location) ==
    IF o = Nil THEN [panic |-> TRUE, ref |-> <<>>]
    ELSE IF o.Ref # Nil THEN [panic |-> FALSE, ref |-> [id |-> o.Ref.Ref]]
    ELSE [panic |-> FALSE, ref |-> [at |-> location]]

\* the value of an unset string
EmptyRef == [id |-> <<>>]

\* the value the code compares schemaRef with: "'"
QuoteRef == [id |-> <<"'">>]

\* validator.ValidateData(location, value): the external checker's verdict
ValidateData(rej, location, value) ==
    IF value \in rej THEN ErrorOf("data does not match the schema") ELSE Nil

\* Parameter{...}
Parameter(f) ==
    [Example |-> f.Example, Content |-> f.Content, Examples |-> f.Examples,
     Schema |-> f.Schema, In |-> f.In, Style |-> f.Style, Name |-> f.Name,
     AllowReserved |-> f.AllowReserved, AllowEmptyValue |-> f.AllowEmptyValue,
     Required |-> f.Required]

\* v.validateSpec(location, validator) for v an entry of Content: the rules
\* of a media type, none of which the model keeps
MediaTypeValidateSpec(mt, location) == <<>>

\* the diagnostic of `switch o.In`
InErrors(o, location) ==
    IF o.In \in {InQuery, InHeader, InPath, InCookie} THEN <<>>
    ELSE IF o.In = "" THEN <<newValidationError(joinLoc(location, <<"in">>), ErrRequired)>>
    ELSE <<newValidationError(joinLoc(location, <<"in">>), ErrInInvalid)>>

\* StyleErrors that lets simple pass everywhere.
StyleErrorsSimpleAnywhere(o, location) ==
    LET at == joinLoc(location, <<"style">>) IN
    CASE o.Style = "" -> <<>>
      [] o.Style \in {StyleMatrix, StyleLabel} ->
            IF o.In # InPath THEN <<newValidationError(at, ErrStyleOnlyPath)>> ELSE <<>>
      [] o.Style = StyleForm ->
            IF o.In # InQuery /\ o.In # InCookie
            THEN <<newValidationError(at, ErrStyleOnlyQueryCookie)>> ELSE <<>>
      [] o.Style = StyleSimple -> <<>>
      [] o.Style \in {StyleSpaceDelimited, StylePipeDelimited, StyleDeepObject} ->
            IF o.In # InQuery THEN <<newValidationError(at, ErrOnlyQuery)>> ELSE <<>>
      [] OTHER -> <<newValidationError(at, ErrStyleInvalid)>>

\* the diagnostic of `switch o.Style`
StyleErrors(o, location) ==
    LET at == joinLoc(location, <<"style">>) IN
    CASE o.Style = "" -> <<>>
      [] o.Style \in {StyleMatrix, StyleLabel} ->
            IF o.In # InPath THEN <<newValidationError(at, ErrStyleOnlyPath)>> ELSE <<>>
      [] o.Style = StyleForm ->
            IF o.In # InQuery /\ o.In # InCookie
            THEN <<newValidationError(at, ErrStyleOnlyQueryCookie)>> ELSE <<>>
      [] o.Style = StyleSimple ->
            IF o.In # InPath /\ o.In # InHeader
            THEN <<newValidationError(at, ErrStyleOnlyPathHeader)>> ELSE <<>>
      [] o.Style \in {StyleSpaceDelimited, StylePipeDelimited, StyleDeepObject} ->
            IF o.In # InQuery THEN <<newValidationError(at, ErrOnlyQuery)>> ELSE <<>>
      [] OTHER -> <<newValidationError(at, ErrStyleInvalid)>>

\* the diagnostic of the switch on o.Name
NameErrors(o, location) ==
    LET at == joinLoc(location, <<"name">>) IN
    IF o.Name = <<>> THEN <<newValidationError(at, ErrRequired)>>
    ELSE IF o.In = InPath /\ ~PathNamePatternMatch(o.Name)
    THEN <<newValidationError(at, ErrNamePattern)>>
    ELSE IF ~o.AllowReserved /\ o.In = InQuery /\ ContainsAny(o.Name, ReservedCharacters)
    THEN <<newValidationError(at, ErrNameReserved)>>
    ELSE <<>>


\* FlagErrors with the required rule applied whatever in is
FlagErrorsRequiredAnywhere(o, location) ==
    (IF o.AllowReserved /\ o.In # InQuery
     THEN <<newValidationError(joinLoc(location, <<"allowReserved">>), ErrOnlyQuery)>> ELSE <<>>)
    \o (IF o.AllowEmptyValue /\ o.In # InQuery
        THEN <<newValidationError(joinLoc(location, <<"allowEmptyValue">>), ErrOnlyQuery)>> ELSE <<>>)
    \o (IF ~o.Required
        THEN <<newValidationError(joinLoc(location, <<"required">>), ErrRequiredInPath)>> ELSE <<>>)

\* ShapeErrors with the two mutual exclusions read as one
ShapeErrorsOneExclusion(o, location) ==
    (IF (o.Schema # Nil /\ ~o.Content.isNil) \/ (o.Example # Nil /\ Cardinality(DOMAIN o.Examples.m) > 0)
     THEN <<newValidationError(joinLoc(location, <<"schema&content">>), ErrMutuallyExclusive)>>
     ELSE <<>>)
    \o (IF Cardinality(DOMAIN o.Content.m) > 1
        THEN <<newValidationError(joinLoc(location, <<"content">>), ErrContentCount)>>
        ELSE <<>>)

\* the diagnostics of the three flags
FlagErrors(o, location) ==
    (IF o.AllowReserved /\ o.In # InQuery
     THEN <<newValidationError(joinLoc(location, <<"allowReserved">>), ErrOnlyQuery)>> ELSE <<>>)
    \o (IF o.AllowEmptyValue /\ o.In # InQuery
        THEN <<newValidationError(joinLoc(location, <<"allowEmptyValue">>), ErrOnlyQuery)>> ELSE <<>>)
    \o (IF ~o.Required /\ o.In = InPath
        THEN <<newValidationError(joinLoc(location, <<"required">>), ErrRequiredInPath)>> ELSE <<>>)

\* the diagnostics of the two mutual exclusions and of the content's size
ShapeErrors(o, location) ==
    (IF o.Schema # Nil /\ ~o.Content.isNil
     THEN <<newValidationError(joinLoc(location, <<"schema&content">>), ErrMutuallyExclusive)>>
     ELSE <<>>)
    \o (IF o.Example # Nil /\ Cardinality(DOMAIN o.Examples.m) > 0
        THEN <<newValidationError(joinLoc(location, <<"example&examples">>), ErrMutuallyExclusive)>>
        ELSE <<>>)
    \o (IF Cardinality(DOMAIN o.Content.m) > 1
        THEN <<newValidationError(joinLoc(location, <<"content">>), ErrContentCount)>>
        ELSE <<>>)

\* the loop `for k, v := range o.Content { v.validateSpec(..) }`
RECURSIVE ContentErrors(_, _, _)
ContentErrors(o, location, ckeys) ==
    IF ckeys = <<>> THEN <<>>
    ELSE MediaTypeValidateSpec(o.Content.m[Head(ckeys)],
                               joinLoc(location, <<"content", Head(ckeys)>>))
         \o ContentErrors(o, location, Tail(ckeys))

\* schemaRef: of the schema, else of the entry of Content that the range
\* statement gives first, else ""
SchemaRefOf(o, location, first) ==
    IF o.Schema # Nil THEN getLocationOrRef(o.Schema, joinLoc(location, <<"schema">>))
    ELSE IF Cardinality(DOMAIN o.Content.m) > 0
    THEN getLocationOrRef(o.Content.m[first].Schema,
                          joinLoc(location, <<"content", first, "schema">>))
    ELSE [panic |-> FALSE, ref |-> EmptyRef]

\* one call of validator.ValidateData(joinLoc(location, "schema"), value)
\* that reports at `at`: the diagnostics and the Validator after it
CheckExample(acc, rej, location, value, at) ==
    LET loc == [at |-> joinLoc(location, <<"schema">>)]
        e == ValidateData(rej, loc, value)
    IN Outcome(acc.errs \o (IF e # Nil THEN <<newValidationError(at, e)>> ELSE <<>>),
               [acc.v EXCEPT !.data = Append(@, [loc |-> loc, value |-> value])])

\* the loop over o.Examples, its keys coming in the order of keys
RECURSIVE ExamplesLoop(_, _, _, _, _, _)
ExamplesLoop(o, keys, acc, c, rej, location) ==
    IF acc.panic \/ keys = <<>> THEN acc
    ELSE LET k == Head(keys)
             e == o.Examples.m[k]
             r == GetSpecOf(e, c)
             got == IF e.Spec = Nil /\ e.Ref # Nil
                    THEN [acc EXCEPT !.v.resolved = Append(@, Attempt(e.Ref.Ref, "examples"))]
                    ELSE acc
         IN IF r.res = "panic" THEN Panicked(got.v)
            ELSE IF r.res = "error" \/ r.val.Value = Nil
            THEN ExamplesLoop(o, Tail(keys), got, c, rej, location)
            ELSE ExamplesLoop(o, Tail(keys),
                              CheckExample(got, rej, location, r.val.Value.val,
                                           joinLoc(location, <<"examples", k>>)),
                              c, rej, location)

\* the example checks of validateSpec, after doNotValidateExamples
ExampleChecks(o, location, acc, c, rej, first, keys) ==
    LET sr == SchemaRefOf(o, location, first) IN
    IF sr.panic THEN Panicked(acc.v)
    ELSE IF sr.ref = QuoteRef
    THEN Outcome(acc.errs \o <<newValidationError(location, ErrNoSchema)>>, acc.v)
    ELSE ExamplesLoop(o, keys,
                      IF o.Example # Nil
                      THEN CheckExample(acc, rej, location, o.Example.val,
                                        joinLoc(location, <<"example">>))
                      ELSE acc,
                      c, rej, location)

\* o.validateSpec(location, validator) for o a *Parameter: v is the
\* Validator, c its document's Components, skip its doNotValidateExamples,
\* rej what its checker rejects; ckeys, first and keys say in which order
\* the three range statements give the entries of Content (twice) and of
\* Examples
ParameterValidateSpec(o, location, v, c, skip, rej, ckeys, first, keys) ==
    LET sv == IF o.Schema # Nil
              THEN RefOrSpecValidateSpec(o.Schema, joinLoc(location, <<"schema">>), v, c)
              ELSE Outcome(<<>>, v)
        rules == ShapeErrors(o, location) \o ContentErrors(o, location, ckeys)
                 \o sv.errs \o InErrors(o, location)
                 \o StyleErrors(o, location) \o NameErrors(o, location)
                 \o FlagErrors(o, location)
    IN IF sv.panic THEN Panicked(sv.v)
       ELSE IF skip THEN Outcome(rules, sv.v)
       ELSE ExampleChecks(o, location, Outcome(rules, sv.v), c, rej, first, keys)

-----------------------------------------------------------------------------
(* Validating a Parameter *)

\* the location the Parameter is validated at
ParamLocation == <<"p">>

\* the orders in which a range statement can give the keys of a map
Perms(S) ==
    {q \in [1..Cardinality(S) -> S] : \A i, j \in 1..Cardinality(S) : i # j => q[i] # q[j]}

ExampleValues == {"e1", "e2"}

\* "a/b", "a#", "?a", "a?", "[", "ab" and the empty name
NameValues ==
    {<<>>, <<"a", "b">>, <<"a", "/", "b">>, <<"a", "#">>, <<"?", "a">>, <<"a", "?">>, <<"[">>}

InValues == {InPath, InQuery, InHeader, InCookie, "", "body"}

StyleValues ==
    {"", StyleMatrix, StyleLabel, StyleForm, StyleSimple, StyleSpaceDelimited,
     StylePipeDelimited, StyleDeepObject, "tabDelimited"}

\* a query parameter "ab" with nothing else set
BaseParameter ==
    Parameter([Example |-> Nil, Content |-> NilMap, Examples |-> NilMap, Schema |-> Nil,
               In |-> InQuery, Style |-> "", Name |-> <<"a", "b">>,
               AllowReserved |-> FALSE, AllowEmptyValue |-> FALSE, Required |-> FALSE])

InlineSchema == RefOrSpec("Schema", Nil, Schema(<<"t">>, <<>>))
BadSchema == RefOrSpec("Schema", Nil, Schema(BadTitle, <<>>))
RefSchema == RefOrSpec("Schema", Ref(RefA, <<>>, <<>>), Nil)
QuoteSchema == RefOrSpec("Schema", Ref(<<"'">>, <<>>, <<>>), Nil)

SchemaFields == {Nil, InlineSchema, BadSchema, RefSchema, QuoteSchema}

ContentFields ==
    {NilMap, MapOf(<<>>),
     MapOf([k \in {"k1"} |-> MediaType(InlineSchema)]),
     MapOf([k \in {"k1"} |-> MediaType(RefSchema)]),
     MapOf([k \in {"k1"} |-> MediaType(Nil)]),
     MapOf([k \in {"k1", "k2"} |-> MediaType(InlineSchema)])}

InlineExample(value) == RefOrSpec("Example", Nil, Example(value))
RefExample(name) == RefOrSpec("Example", Ref(ComponentRef("Examples", name), <<>>, <<>>), Nil)

ExamplesFields ==
    {NilMap,
     MapOf([k \in {"x"} |-> InlineExample(AnyValue("e1"))]),
     MapOf([k \in {"x"} |-> InlineExample(Nil)]),
     MapOf([k \in {"x"} |-> RefExample(<<"A">>)]),
     MapOf([k \in {"x"} |-> RefExample(<<"B">>)]),
     MapOf([k \in {"x", "y"} |->
               IF k = "x" THEN InlineExample(AnyValue("e1")) ELSE InlineExample(AnyValue("e2"))])}

\* The parameters that are validated: every combination of the fields the
\* rules of in, style, name and the flags read, and every combination of
\* the fields the example checks read.
ParameterValues ==
    {[BaseParameter EXCEPT !.In = i, !.Style = st, !.Name = n, !.AllowReserved = ar,
                           !.AllowEmptyValue = ae, !.Required = rq] :
        i \in InValues, st \in StyleValues, n \in NameValues,
        ar \in BOOLEAN, ae \in BOOLEAN, rq \in BOOLEAN}
    \cup
    {[BaseParameter EXCEPT !.Schema = sc, !.Content = ct, !.Example = ex, !.Examples = exs] :
        sc \in SchemaFields, ct \in ContentFields,
        ex \in {Nil} \cup {AnyValue(x) : x \in ExampleValues}, exs \in ExamplesFields}

\* The document's Components: none, or a schema A and an example A
ParamComponents ==
    {Nil,
     AddTo(AddTo(EmptyComponents, <<"A">>, InlineSchema), <<"A">>, InlineExample(AnyValue("e2")))}

RejectValues == {{}, {"e1"}, {"e1", "e2"}}

\* o.validateSpec(ParamLocation, validator) on a new Validator
ValidateParameter(skip, ckeys, first, keys) ==
    /\ pres[skip] = Nil
    /\ pres' = [pres EXCEPT ![skip] =
                  [out |-> ParameterValidateSpec(param, ParamLocation, NewValidator, components,
                                                 skip, reject, ckeys, first, keys),
                   first |-> first, keys |-> keys]]
    /\ UNCHANGED <<param, reject>>
    /\ UNCHANGED <<resolveVars, jsonVars, boolVars, soaVars, runVars, concVars>>

InitParam ==
    /\ components \in ParamComponents
    /\ pc = "idle"
    /\ recv = Nil
    /\ cur = Nil
    /\ visited = {}
    /\ ret = NoResult
    /\ calls = 0
    /\ lookups = 0
    /\ InitJSONVars
    /\ InitBoolVars
    /\ InitSOAVars
    /\ InitRunVars
    /\ InitConcVars
    /\ param \in ParameterValues
    /\ reject \in RejectValues
    /\ pres = [skip \in BOOLEAN |-> Nil]

NextParam ==
    \E skip \in BOOLEAN :
        \E ckeys \in Perms(DOMAIN param.Content.m), keys \in Perms(DOMAIN param.Examples.m) :
            \E first \in (DOMAIN param.Content.m) \cup
                         (IF DOMAIN param.Content.m = {} THEN {"none"} ELSE {}) :
                ValidateParameter(skip, ckeys, first, keys)

SpecParam == InitParam /\ [][NextParam]_vars

-----------------------------------------------------------------------------
(* Components.validateSpec, and a validation run over a document *)

\* `[a-zA-Z0-9.\-_]+` without its anchors: a name matches when some part
\* of it does
namePatternMatchUnanchored(k) == \E i \in DOMAIN k : k[i] \in {"a", "b", "f", "o", "r", "A", "B", "1", "2", ".", "-", "_"}

\* `^[a-zA-Z0-9.\-_]+$`
NameCharacters ==
    {"a", "b", "c", "d", "e", "f", "g", "h", "i", "j", "k", "l", "m",
     "n", "o", "p", "q", "r", "s", "t", "u", "v", "w", "x", "y", "z",
     "A", "B", "C", "D", "E", "F", "G", "H", "I", "J", "K", "L", "M",
     "N", "O", "P", "Q", "R", "S", "T", "U", "V", "W", "X", "Y", "Z",
     "0", "1", "2", "3", "4", "5", "6", "7", "8", "9", ".", "-", "_"}

\* namePattern.MatchString(k)
namePatternMatch(k) == k # <<>> /\ \A i \in DOMAIN k : k[i] \in NameCharacters

ErrInvalidName == ErrorOf("invalid name, must match")

\* the maps of Components in the order Components.validateSpec ranges over them
ComponentFields ==
    <<"Schemas", "Responses", "Parameters", "Examples", "RequestBodies", "Headers",
      "SecuritySchemes", "Links", "Callbacks", "Paths">>

\* a RefOrSpec.validateSpec call: its receiver, its location, the Validator
\* before it and what it gave
Call(o, location, v, out) == [o |-> o, loc |-> location, before |-> v, out |-> out]

\* what a walk gives: an Outcome and the RefOrSpec.validateSpec calls it made
Walked(errs, v, panic, made) == [errs |-> errs, v |-> v, panic |-> panic, calls |-> made]

\* The entries the ten loops of Components.validateSpec come to, in order:
\* the maps in the order of fields, the keys of the map f in the order order[f].
RECURSIVE ComponentsLoops(_, _, _)
ComponentsLoops(o, fields, order) ==
    IF fields = <<>> THEN <<>>
    ELSE [i \in DOMAIN order[Head(fields)] |->
             [category |-> CategoryName(Head(fields)), k |-> order[Head(fields)][i],
              v |-> o[Head(fields)][order[Head(fields)][i]]]]
         \o ComponentsLoops(o, Tail(fields), order)

\* the body of a loop for the entry e: the name check, then
\* v.validateSpec(joinLoc(location, category, k), validator)
EntryValidate(e, location, acc, c) ==
    LET at == joinLoc(location, <<e.category, e.k>>)
        nameErrs == IF namePatternMatch(e.k) THEN <<>>
                    ELSE <<newValidationError(at, ErrInvalidName)>>
        r == RefOrSpecValidateSpec(e.v, at, acc.v, c)
    IN Walked(acc.errs \o nameErrs \o r.errs, r.v, r.panic,
              Append(acc.calls, Call(e.v, at, acc.v, r)))

\* the loops over the entries in turn; a panic ends the walk (what the walk
\* gave so far is bound to a, so that it is computed once)
RECURSIVE RangeValidate(_, _, _, _)
RangeValidate(entries, location, acc, c) ==
    IF entries = <<>> THEN acc
    ELSE CHOOSE w \in {IF a.panic THEN a
                       ELSE RangeValidate(Tail(entries), location,
                                          EntryValidate(Head(entries), location, a, c), c) :
                       a \in {acc}} : TRUE

\* o.validateSpec(location, validator) for o a *Components
ComponentsValidateSpec(o, location, v, c, order) ==
    RangeValidate(ComponentsLoops(o, ComponentFields, order), location,
                  Walked(<<>>, v, FALSE, <<>>), c)

\* The orders in which the maps of c can be ranged over: every map with two
\* keys or more comes in an order of its own.
RangeOrders(c) ==
    LET many == {f \in DOMAIN c : Cardinality(DOMAIN c[f]) > 1}
        all == UNION {Perms(DOMAIN c[f]) : f \in many}
    IN {[f \in DOMAIN c |->
            IF f \in many THEN g[f]
            ELSE IF DOMAIN c[f] = {} THEN <<>>
            ELSE <<CHOOSE k \in DOMAIN c[f] : TRUE>>] :
           g \in {h \in [many -> all] : \A f \in many : h[f] \in Perms(DOMAIN c[f])}}

\* where the document declares its Components, and the containers of vdoc
ComponentsLocation == <<<<"c", "o", "m", "p", "o", "n", "e", "n", "t", "s">>>>

DocItems == {"l1", "l2"}

DocLocation(item) == IF item = "l1" THEN <<<<"l", "1">>>> ELSE <<<<"l", "2">>>>

\* The kinds of the documents that are validated.
RunKinds == {"Schema", "Response"}

\* What the entries of the document's Components are: an inline value that
\* keeps its rules, one that breaks one, references.
RunEntryValues(T) ==
    {RefOrSpec(T, Nil, Schema(<<"e", "n", "t", "r", "y">>, <<>>)),
     RefOrSpec(T, Nil, Schema(BadTitle, <<>>))} \cup
    (IF T = "Schema"
     THEN {RefOrSpec(T, Ref(id, <<>>, <<>>), Nil) : id \in EntryRefs(T)}
     ELSE {})

\* What the containers outside Components are: inline values, references
\* that resolve or not, of one kind and of another with the same identifier,
\* and the container that holds nothing.
DocValues ==
    {RefOrSpec("Schema", Nil, Schema(<<"o", "w", "n">>, <<>>)),
     RefOrSpec("Schema", Nil, Schema(BadTitle, <<>>)),
     RefOrSpec("Schema", Nil, Nil)} \cup
    {RefOrSpec("Schema", Ref(id, <<>>, <<>>), Nil) :
        id \in EntryRefs("Schema") \cup {RemoteRef, UnknownCategoryRef}} \cup
    {RefOrSpec("Response", Ref(RemoteRef, <<>>, <<>>), Nil)}

\* The parameter of the document, when it has one: a query parameter whose
\* example map has two References with one identifier
RunParameterLocation == <<<<"p">>>>

RunParameter ==
    [BaseParameter EXCEPT !.Examples =
        MapOf([k \in {"x", "y"} |-> RefOrSpec("Example", Ref(RemoteRef, <<>>, <<>>), Nil)])]

\* Validator.ValidateSpec(): a new Validator on the document; the parts of
\* the document are its Components, when it has them, its containers and
\* its parameter, when it has one
Validate ==
    /\ vpc = "idle"
    /\ pc = "idle"
    /\ vpc' = "run"
    /\ vrun' = NewValidator
    /\ verrs' = <<>>
    /\ vcalls' = <<>>
    /\ vlast' = Nil
    /\ vtodo' = DOMAIN vdoc \cup (IF components # Nil THEN {"components"} ELSE {})
                            \cup (IF param # Nil THEN {"parameter"} ELSE {})
    /\ UNCHANGED vdoc
    /\ UNCHANGED <<resolveVars, jsonVars, boolVars, soaVars, paramVars, concVars>>

\* the run comes to the container at item: vdoc[item].validateSpec(location, validator)
ValidateContainer(item) ==
    /\ vpc = "run"
    /\ item \in vtodo \cap DOMAIN vdoc
    /\ LET out == RefOrSpecValidateSpec(vdoc[item], DocLocation(item), vrun, components)
           call == Call(vdoc[item], DocLocation(item), vrun, out)
       IN /\ vrun' = out.v
          /\ verrs' = verrs \o out.errs
          /\ vlast' = call
          /\ vcalls' = Append(vcalls, call)
          /\ vtodo' = vtodo \ {item}
          /\ vpc' = IF out.panic THEN "panic"
                    ELSE IF vtodo' = {} THEN "done" ELSE "run"
    /\ UNCHANGED vdoc
    /\ UNCHANGED <<resolveVars, jsonVars, boolVars, soaVars, paramVars, concVars>>

\* the run comes to the Components: components.validateSpec(location, validator)
ValidateComponents(order) ==
    /\ vpc = "run"
    /\ "components" \in vtodo
    /\ \E w \in {ComponentsValidateSpec(components, ComponentsLocation, vrun, components, order)} :
          /\ vrun' = w.v
          /\ verrs' = verrs \o w.errs
          /\ vlast' = IF w.calls = <<>> THEN vlast ELSE w.calls[Len(w.calls)]
          /\ vcalls' = vcalls \o w.calls
          /\ vtodo' = vtodo \ {"components"}
          /\ vpc' = IF w.panic THEN "panic"
                    ELSE IF vtodo' = {} THEN "done" ELSE "run"
    /\ UNCHANGED vdoc
    /\ UNCHANGED <<resolveVars, jsonVars, boolVars, soaVars, paramVars, concVars>>

\* the run comes to the parameter: param.validateSpec(location, validator),
\* the range over its example map giving the keys in the order keys
ValidateRunParameter(keys) ==
    /\ vpc = "run"
    /\ "parameter" \in vtodo
    /\ \E w \in {ParameterValidateSpec(param, RunParameterLocation, vrun, components,
                                        FALSE, reject, <<>>, "none", keys)} :
          /\ vrun' = w.v
          /\ verrs' = verrs \o w.errs
          /\ vtodo' = vtodo \ {"parameter"}
          /\ vpc' = IF w.panic THEN "panic"
                    ELSE IF vtodo' = {} THEN "done" ELSE "run"
    /\ UNCHANGED <<vdoc, vlast, vcalls>>
    /\ UNCHANGED <<resolveVars, jsonVars, boolVars, soaVars, paramVars, concVars>>

InitValidate ==
    /\ components \in {Nil, EmptyComponents}
    /\ pc = "idle"
    /\ recv = Nil
    /\ cur = Nil
    /\ visited = {}
    /\ ret = NoResult
    /\ calls = 0
    /\ lookups = 0
    /\ InitJSONVars
    /\ InitBoolVars
    /\ InitSOAVars
    /\ param \in {Nil, RunParameter}
    /\ reject = {}
    /\ pres = [skip \in BOOLEAN |-> Nil]
    /\ vrun = NewValidator
    /\ verrs = <<>>
    /\ vlast = Nil
    /\ vpc = "idle"
    /\ vdoc \in [DocItems -> DocValues]
    /\ vtodo = {}
    /\ vcalls = <<>>
    /\ InitConcVars

NextValidate ==
    \/ vpc = "idle" /\ \E T \in RunKinds, name \in Names : \E v \in RunEntryValues(T) : Add(name, v)
    \/ Validate
    \/ \E item \in DocItems : ValidateContainer(item)
    \/ components # Nil /\ \E order \in RangeOrders(components) : ValidateComponents(order)
    \/ param # Nil /\ \E keys \in Perms(DOMAIN param.Examples.m) : ValidateRunParameter(keys)

SpecValidate == InitValidate /\ [][NextValidate]_vars

-----------------------------------------------------------------------------
(* Two validation runs over one document, each in a thread of its own *)

\* a part of the document that a run validated: a container, or Components
\* with the orders in which its maps were ranged over
Step(part, order) == [part |-> part, order |-> order]

NoOrder == [f \in DOMAIN EmptyComponents |-> <<>>]

\* what the run has after validating a part gave out
RunAfter(run, part, order, out) ==
    Run(IF out.panic THEN "panic" ELSE IF run.todo \ {part} = {} THEN "done" ELSE "run",
        out.v, run.errs \o out.errs, run.todo \ {part}, Append(run.steps, Step(part, order)))

\* NewValidator(spec).ValidateSpec() is called in the thread r
StartRun(r) ==
    /\ runs[r].pc = "idle"
    /\ runs' = [runs EXCEPT ![r] =
                   Run("run", NewValidator, <<>>,
                       DOMAIN vdoc \cup (IF components # Nil THEN {"components"} ELSE {}), <<>>)]
    /\ UNCHANGED <<resolveVars, jsonVars, boolVars, soaVars, paramVars, runVars>>

\* the run of thread r comes to the container at item
RunContainer(r, item) ==
    /\ runs[r].pc = "run"
    /\ item \in runs[r].todo \cap DOMAIN vdoc
    /\ \E out \in {RefOrSpecValidateSpec(vdoc[item], DocLocation(item), runs[r].v, components)} :
          runs' = [runs EXCEPT ![r] = RunAfter(@, item, NoOrder, out)]
    /\ UNCHANGED <<resolveVars, jsonVars, boolVars, soaVars, paramVars, runVars>>

\* the run of thread r comes to the Components
RunComponents(r, order) ==
    /\ runs[r].pc = "run"
    /\ "components" \in runs[r].todo
    /\ \E out \in {ComponentsValidateSpec(components, ComponentsLocation, runs[r].v,
                                           components, order)} :
          runs' = [runs EXCEPT ![r] = RunAfter(@, "components", order, out)]
    /\ UNCHANGED <<resolveVars, jsonVars, boolVars, soaVars, paramVars, runVars>>

\* The documents the two runs validate
ConcurrentComponents ==
    {Nil,
     AddTo(AddTo(EmptyComponents, <<"A">>,
                 RefOrSpec("Schema", Ref(ComponentRef("Schemas", <<"B">>), <<>>, <<>>), Nil)),
           <<"B">>, RefOrSpec("Schema", Nil, Schema(BadTitle, <<>>))),
     AddTo(AddTo(EmptyComponents, <<"A">>,
                 RefOrSpec("Schema", Ref(ComponentRef("Schemas", <<"B">>), <<>>, <<>>), Nil)),
           <<"B">>,
           RefOrSpec("Schema", Ref(ComponentRef("Schemas", <<"A">>), <<>>, <<>>), Nil))}

ConcurrentDocValues ==
    {RefOrSpec("Schema", Nil, Schema(BadTitle, <<>>)),
     RefOrSpec("Schema", Ref(ComponentRef("Schemas", <<"A">>), <<>>, <<>>), Nil),
     RefOrSpec("Schema", Ref(RemoteRef, <<>>, <<>>), Nil),
     RefOrSpec("Response", Ref(RemoteRef, <<>>, <<>>), Nil),
     RefOrSpec("Schema", Nil, Nil)}

InitConcurrent ==
    /\ components \in ConcurrentComponents
    /\ pc = "idle"
    /\ recv = Nil
    /\ cur = Nil
    /\ visited = {}
    /\ ret = NoResult
    /\ calls = 0
    /\ lookups = 0
    /\ InitJSONVars
    /\ InitBoolVars
    /\ InitSOAVars
    /\ InitParamVars
    /\ vrun = NewValidator
    /\ verrs = <<>>
    /\ vlast = Nil
    /\ vpc = "idle"
    /\ vdoc \in [DocItems -> ConcurrentDocValues]
    /\ vtodo = {}
    /\ vcalls = <<>>
    /\ InitConcVars

NextConcurrent ==
    \E r \in RunIds :
        \/ StartRun(r)
        \/ \E item \in DocItems : RunContainer(r, item)
        \/ components # Nil /\ \E order \in RangeOrders(components) : RunComponents(r, order)

SpecConcurrent == InitConcurrent /\ [][NextConcurrent]_vars

-----------------------------------------------------------------------------
(* A validation run over Components of every category *)

\* "foo bar", the empty name, "foo-bar_1.2" and "A"
FooBar == <<"f", "o", "o", " ", "b", "a", "r">>
FooBar12 == <<"f", "o", "o", "-", "b", "a", "r", "_", "1", ".", "2">>

ComponentNames == {FooBar, <<>>, FooBar12, <<"A">>}

\* What the entries are: an inline value that keeps its rules, one that
\* breaks one, a Reference that does not resolve, and the container that
\* holds nothing.
NamedEntryValues(T) ==
    {RefOrSpec(T, Nil, Schema(<<"e", "n", "t", "r", "y">>, <<>>)),
     RefOrSpec(T, Nil, Schema(BadTitle, <<>>)),
     RefOrSpec(T, Ref(RemoteRef, <<>>, <<>>), Nil),
     RefOrSpec(T, Nil, Nil)}

\* Components with one entry, or with two entries in one map
NamedComponents ==
    {AddTo(EmptyComponents, k, v) : k \in ComponentNames, v \in UNION {NamedEntryValues(T) : T \in Kinds}}
    \cup UNION {{AddTo(AddTo(EmptyComponents, k1, v1), k2, v2) :
                    k1 \in {FooBar, <<>>}, k2 \in {FooBar12, <<"A">>},
                    v1 \in NamedEntryValues(T), v2 \in NamedEntryValues(T)} : T \in Kinds}

InitComponents ==
    /\ components \in NamedComponents
    /\ pc = "idle"
    /\ recv = Nil
    /\ cur = Nil
    /\ visited = {}
    /\ ret = NoResult
    /\ calls = 0
    /\ lookups = 0
    /\ InitJSONVars
    /\ InitBoolVars
    /\ InitSOAVars
    /\ InitParamVars
    /\ InitRunVars
    /\ InitConcVars

NextComponents ==
    \/ Validate
    \/ \E order \in RangeOrders(components) : ValidateComponents(order)

SpecComponents == InitComponents /\ [][NextComponents]_vars

-----------------------------------------------------------------------------
(* Properties of GetSpec *)

Fields == {FieldOf(T) : T \in Kinds}

Returned == pc \in {"done", "panic"}

\* recv holds only a Reference, whose identifier is id
RefersTo(id) == recv # Nil /\ recv.Spec = Nil /\ recv.Ref # Nil /\ recv.Ref.Ref = id

\* id = "#/components/" + rest for some rest
StartsWithComponents(id) ==
    \E k \in 0..Len(id) : id = ComponentsPrefix \o SubSeq(id, Len(id) - k + 1, Len(id))

\* The entry a Reference-only container of kind o.T names in c: the entry
\* <name> of o.T's own category, when o's identifier is
\* #/components/<that category>/<name> and c has such an entry.
HasTarget(o, c) ==
    /\ c # Nil
    /\ o.Ref # Nil
    /\ \E n \in DOMAIN c[FieldOf(o.T)] : o.Ref.Ref = ComponentRef(FieldOf(o.T), n)

Target(o, c) ==
    c[FieldOf(o.T)][CHOOSE n \in DOMAIN c[FieldOf(o.T)] : o.Ref.Ref = ComponentRef(FieldOf(o.T), n)]

\* Where the chain of references from o ends, followed for at most fuel
\* hops: <<"value", v>> at the first container holding an inline value,
\* <<"broken">> at a container whose Reference names no entry of o's kind,
\* <<"loop">> when the fuel runs out.
RECURSIVE Chase(_, _, _)
Chase(o, c, fuel) ==
    IF o.Spec # Nil THEN <<"value", o.Spec>>
    ELSE IF ~HasTarget(o, c) THEN <<"broken">>
    ELSE IF fuel = 0 THEN <<"loop">>
    ELSE Chase(Target(o, c), c, fuel - 1)

\* A chain that has not ended after one hop per entry, and one more, repeats an entry.
ChainEnd(o, c) == Chase(o, c, IF c = Nil THEN 0 ELSE NumEntries(c) + 1)

\* The identifiers of the container under resolution and of the entries.
RefIdsOf(o, c) ==
    (IF o # Nil /\ o.Ref # Nil THEN {o.Ref.Ref} ELSE {}) \cup
    (IF c = Nil THEN {}
     ELSE {c[f][n].Ref.Ref : <<f, n>> \in {x \in Fields \X Names :
                                  x[2] \in DOMAIN c[x[1]] /\ c[x[1]][x[2]].Ref # Nil}})

(* C1: GetSpec on a reference #/components/<category>/<name>, <category> one
   of the Components categories and <name> no key of that category's map,
   returns a SpecNotFoundError and no value, and does not panic. *)
C1_MissingEntryIsNotFound ==
    \A f \in Fields, n \in Names :
        (/\ Returned
         /\ RefersTo(ComponentRef(f, n))
         /\ components # Nil
         /\ n \notin DOMAIN components[f])
        => (/\ pc = "done"
            /\ ret.val = Nil
            /\ ret.err # Nil
            /\ ret.err.type = "SpecNotFoundError")

(* C2: GetSpec terminates: it makes at most one getSpec invocation per
   distinct reference identifier of the container and the entries, and one
   more; and on schemas that reference each other in a cycle (or a schema
   that references itself) it returns the cycle error. *)
C2_CycleTerminates ==
    /\ calls <= Cardinality(visited) + 1
    /\ (pc = "getSpec" => calls = Cardinality(visited))
    /\ visited \subseteq RefIdsOf(recv, components)
    /\ (Returned /\ recv.T = "Schema" /\ ChainEnd(recv, components) = <<"loop">>)
       => (/\ pc = "done"
           /\ ret.val = Nil
           /\ ret.err # Nil
           /\ ret.err.message = MsgCycle)

C2_Witness ==
    /\ pc = "done"
    /\ recv.T = "Schema"
    /\ ChainEnd(recv, components) = <<"loop">>
    /\ ret.err # Nil
    /\ ret.err.message = MsgCycle
    /\ calls = 3
    /\ Cardinality(visited) = 2

(* C3: for each of the ten kinds, GetSpec on a container of that kind
   holding #/components/<kind's category>/<name>, the entry existing and
   holding an inline value, returns that inline value and no error. *)
C3_EveryKindResolves ==
    \A T \in Kinds, n \in Names :
        (/\ Returned
         /\ recv.T = T
         /\ RefersTo(ComponentRef(FieldOf(T), n))
         /\ components # Nil
         /\ n \in DOMAIN components[FieldOf(T)]
         /\ components[FieldOf(T)][n].Spec # Nil)
        => (/\ pc = "done"
            /\ ret = [val |-> components[FieldOf(T)][n].Spec, err |-> Nil])

(* C6: GetSpec returns the container's own inline value when it has one,
   whatever Components is and without a lookup; otherwise, when the chain
   of references reaches an entry holding an inline value, it returns the
   inline value of the first such entry. *)
C6_ReturnsInlineValue ==
    /\ (Returned /\ recv.Spec # Nil)
       => (pc = "done" /\ ret = [val |-> recv.Spec, err |-> Nil] /\ lookups = 0)
    /\ (Returned /\ recv.Spec = Nil /\ ChainEnd(recv, components)[1] = "value")
       => (pc = "done" /\ ret = [val |-> ChainEnd(recv, components)[2], err |-> Nil])

(* C7: GetSpec on a reference whose identifier does not start with
   "#/components/" returns the unsupported-remote-reference error and no
   value, with Components nil as well, and makes no lookup in Components. *)
C7_RemoteReferenceRejected ==
    (/\ Returned
     /\ recv.Spec = Nil
     /\ recv.Ref # Nil
     /\ ~StartsWithComponents(recv.Ref.Ref))
    => (/\ pc = "done"
        /\ ret.val = Nil
        /\ ret.err # Nil
        /\ ret.err.message = MsgRemote
        /\ lookups = 0
        /\ calls = 1)

C7_Witness ==
    /\ pc = "done"
    /\ components = Nil
    /\ RefersTo(RemoteRef)
    /\ ret.err # Nil
    /\ ret.err.message = MsgRemote

(* C8: GetSpec on a container of kind T holding a reference into a category
   whose entries are of another kind fails with the type-mismatch error and
   returns no value, whether or not the named entry exists. *)
C8_WrongKindIsTypeMismatch ==
    \A f \in Fields, n \in Names :
        (/\ Returned
         /\ RefersTo(ComponentRef(f, n))
         /\ f # FieldOf(recv.T)
         /\ components # Nil)
        => (/\ pc = "done"
            /\ ret.val = Nil
            /\ ret.err # Nil
            /\ ret.err.message = MsgTypeMismatch)

-----------------------------------------------------------------------------
(* Properties of MarshalJSON and UnmarshalJSON *)

\* j is an object with a "$ref" member that is a non-empty string
HasNonEmptyRef(j) ==
    /\ j.t = "object"
    /\ "$ref" \in DOMAIN j.m
    /\ j.m["$ref"].t = "string"
    /\ j.m["$ref"].v # <<>>

\* j decodes as a Reference with a non-empty $ref
IsReferenceInput(j) ==
    /\ HasNonEmptyRef(j)
    /\ \A k \in {"summary", "description"} : k \in DOMAIN j.m => j.m[k].t = "string"

\* The last operation decoded, into a new zero value, the encoding of a
\* container that NewRefOrSpec or NewRefOrExtSpec built holding a Reference
\* or an inline value.
RoundTripDone ==
    /\ jres # "none"
    /\ enc # Nil
    /\ jin = enc.json
    /\ before = [ZeroBox EXCEPT !.T = enc.of.T]
    /\ enc.origin = "new"
    /\ (enc.of.Ref # Nil \/ enc.of.Spec # Nil)

(* C4, as claimed: for every container x built by NewRefOrSpec or
   NewRefOrExtSpec from a Ref, a reference string or an inline value,
   decode(encode(x)) = x, the variant kept. *)
C4_RoundTrip == RoundTripDone => (jres = "ok" /\ box = enc.of)

(* C4, amended: decode(encode(x)) = x, the variant kept, for every such x
   that holds a Reference with a non-empty identifier, or an inline value
   whose encoding has no non-empty "$ref" member. *)
C4_RoundTripNonEmptyRef ==
    (/\ RoundTripDone
     /\ (enc.of.Ref # Nil => enc.of.Ref.Ref # <<>>)
     /\ (enc.of.Ref = Nil => ~HasNonEmptyRef(enc.json)))
    => (jres = "ok" /\ box = enc.of)

C4_Witness ==
    /\ RoundTripDone
    /\ jres = "ok"
    /\ enc.of.Ref # Nil
    /\ enc.of.Ref.Summary # <<>>
    /\ box = enc.of

(* C5: after every successful UnmarshalJSON, on a new container or on one
   that held either variant, exactly one of Ref and Spec is non-nil: Ref
   exactly when the input decodes as a Reference with a non-empty $ref. *)
C5_ExactlyOneAfterDecode ==
    jres = "ok" =>
        /\ (box.Ref # Nil) # (box.Spec # Nil)
        /\ (box.Ref # Nil) <=> IsReferenceInput(jin)

(* C9: MarshalJSON emits exactly the Reference's fields whenever Ref is
   set, also when Spec is set as well, and exactly the inline value's
   fields otherwise; never both and never a wrapper member. *)
C9_MarshalEmitsOneVariant ==
    enc # Nil =>
        LET o == enc.of
            j == enc.json
        IN /\ o.Ref # Nil =>
                /\ j.t = "object"
                /\ "$ref" \in DOMAIN j.m
                /\ DOMAIN j.m \subseteq {"$ref", "summary", "description"}
                /\ j.m["$ref"] = JStr(o.Ref.Ref)
                /\ ("summary" \in DOMAIN j.m) <=> (o.Ref.Summary # <<>>)
                /\ ("summary" \in DOMAIN j.m) => j.m["summary"] = JStr(o.Ref.Summary)
                /\ ("description" \in DOMAIN j.m) <=> (o.Ref.Description # <<>>)
                /\ ("description" \in DOMAIN j.m) => j.m["description"] = JStr(o.Ref.Description)
           /\ (o.Ref = Nil /\ o.Spec # Nil) => j = MarshalSchema(o.Spec)
           /\ (o.Ref = Nil /\ o.Spec = Nil) => j = JNull
           /\ j.t = "object" => ("Ref" \notin DOMAIN j.m /\ "Spec" \notin DOMAIN j.m)

C9_Witness ==
    /\ enc # Nil
    /\ enc.of.Ref # Nil
    /\ enc.of.Spec # Nil
    /\ enc.of.Spec.Title # <<>>
    /\ DOMAIN enc.json.m = {"$ref"}

-----------------------------------------------------------------------------
(* Properties of BoolOrSchema *)

\* The last json.Unmarshal was into a new testAD and succeeded.
DecodedNew == adres = "ok" /\ adbefore = ZeroAD

APIs(kinds) == "ap" \in DOMAIN adin.m /\ adin.m["ap"].t \in kinds

DecodeFidelity ==
    /\ "ap" \notin DOMAIN adin.m => ad.AP = Nil
    /\ (APIs({"bool"}) /\ ~adin.m["ap"].b) => ad.AP = BoolOrSchema(Nil, FALSE)
    /\ (APIs({"bool"}) /\ adin.m["ap"].b) => ad.AP = BoolOrSchema(Nil, TRUE)
    /\ APIs({"object"}) => (ad.AP # Nil /\ ad.AP.Allowed /\ ad.AP.Schema # Nil)

(* C10, as claimed: decoding false gives Allowed = false and no Schema, true
   gives Allowed = true and no Schema, an object gives Allowed = true and a
   Schema, an absent field leaves the pointer nil; and in each of these
   cases re-encoding the decoded value gives the input. *)
C10_Fidelity ==
    DecodedNew =>
        /\ DecodeFidelity
        /\ (adout # Nil /\ ("ap" \notin DOMAIN adin.m \/ APIs({"bool", "object"})))
              => adout = adin

(* C10, amended: the decoded values are as claimed; re-encoding gives the
   input when the field is absent, false, true, or an object without a
   non-empty "$ref" member; an object with a non-empty "$ref" re-encodes
   as the members of the Reference alone. *)
C10_FidelityExceptRefSiblings ==
    DecodedNew =>
        /\ DecodeFidelity
        /\ (adout # Nil /\ ("ap" \notin DOMAIN adin.m \/ APIs({"bool"})
                            \/ (APIs({"object"}) /\ ~HasNonEmptyRef(adin.m["ap"]))))
              => adout = adin
        /\ (adout # Nil /\ APIs({"object"}) /\ HasNonEmptyRef(adin.m["ap"]))
              => /\ adout.m["ap"] = MarshalRef(ad.AP.Schema.Ref)
                 /\ adout.m["ap"].m =
                       Restrict(adin.m["ap"].m,
                                (DOMAIN adin.m["ap"].m) \cap {"$ref", "summary", "description"})

C10_Witness ==
    /\ DecodedNew
    /\ APIs({"bool"})
    /\ ~adin.m["ap"].b
    /\ ad.AP = BoolOrSchema(Nil, FALSE)
    /\ adout = adin

-----------------------------------------------------------------------------
(* Properties of SingleOrArray *)

AllStrings(j) == j.t = "array" /\ \A i \in DOMAIN j.a : j.a[i].t = "string"

(* C11: decoding a bare scalar v gives the one-element sequence [v],
   decoding a sequence of scalars gives that sequence in order, encoding a
   one-element sequence [v] gives the bare scalar v, and decoding the
   encoding of a sequence of scalars gives the sequence back. *)
C11_ScalarRoundTrip ==
    /\ (soain # Nil /\ soain.t = "string") => (soares = "ok" /\ soa = Slice(<<soain.v>>))
    /\ (soain # Nil /\ AllStrings(soain)) =>
          /\ soares = "ok"
          /\ soa = Slice([i \in DOMAIN soain.a |-> soain.a[i].v])
    /\ (soaenc # Nil /\ Len(soaenc.of.elems) = 1) => soaenc.json = JStr(soaenc.of.elems[1])
    /\ (soaenc # Nil /\ soain = soaenc.json) => (soares = "ok" /\ soa = soaenc.of)

C11_Witness ==
    /\ soaenc # Nil
    /\ soaenc.of = Slice(<<(<<"x">>)>>)
    /\ soaenc.json = JStr(<<"x">>)
    /\ soain = soaenc.json
    /\ soares = "ok"
    /\ soa = soaenc.of

(* C12: a SingleOrArray with no element, produced by NewSingleOrArray with
   no arguments, as the zero value or by decoding an empty sequence,
   encodes as the empty sequence; one with two or more elements encodes as
   the full sequence. *)
C12_EmptyEncodesAsSequence ==
    soaenc # Nil =>
        /\ Len(soaenc.of.elems) = 0 => soaenc.json = JArrOf(<<>>)
        /\ Len(soaenc.of.elems) >= 2 =>
              soaenc.json = JArrOf([i \in DOMAIN soaenc.of.elems |-> JStr(soaenc.of.elems[i])])

-----------------------------------------------------------------------------
(* Properties of Parameter.validateSpec *)

\* the diagnostics of errs that are located at loc
DiagsAt(errs, loc) == SelectSeq(errs, LAMBDA d : d.loc = loc)

\* validateSpec was called with doNotValidateExamples = skip and returned
ParamReturned(skip) == pres[skip] # Nil /\ ~pres[skip].out.panic

(* C13: with in = path, a name that contains '/', '#' or '?' anywhere gets
   one pattern-mismatch diagnostic at <location>/name, and a name that
   contains none of them gets no diagnostic there. *)
C13_PathNamePattern ==
    \A skip \in BOOLEAN :
        (ParamReturned(skip) /\ param.In = InPath /\ param.Name # <<>>) =>
            DiagsAt(pres[skip].out.errs, joinLoc(ParamLocation, <<"name">>)) =
                IF ContainsAny(param.Name, {"/", "#", "?"})
                THEN <<newValidationError(joinLoc(ParamLocation, <<"name">>), ErrNamePattern)>>
                ELSE <<>>

\* the parameter has no schema, and no content or a content entry without one
NoEffectiveSchema ==
    /\ param.Schema = Nil
    /\ \/ DOMAIN param.Content.m = {}
       \/ \E k \in DOMAIN param.Content.m : param.Content.m[k].Schema = Nil

(* C14: when the example checks are not skipped and the parameter has
   neither a schema nor a content entry with a schema, validateSpec
   returns, with a diagnostic at the parameter's location that examples
   cannot be checked, and without a call of the schema checker. *)
C14_NoSchemaNoExampleCheck ==
    (pres[FALSE] # Nil /\ NoEffectiveSchema) =>
        /\ ~pres[FALSE].out.panic
        /\ \E i \in DOMAIN pres[FALSE].out.errs :
              pres[FALSE].out.errs[i] = newValidationError(ParamLocation, ErrNoSchema)
        /\ pres[FALSE].out.v.data = <<>>

\* in and style go together
Permitted(in, style) ==
    CASE style \in {"matrix", "label"} -> in = "path"
      [] style = "form" -> in \in {"query", "cookie"}
      [] style = "simple" -> in \in {"path", "header"}
      [] style \in {"spaceDelimited", "pipeDelimited", "deepObject"} -> in = "query"
      [] OTHER -> FALSE

KnownStyles ==
    {"matrix", "label", "form", "simple", "spaceDelimited", "pipeDelimited", "deepObject"}

(* C18: an empty style gets no diagnostic at <location>/style; a non-empty
   style gets one exactly when (in, style) is not permitted by the table,
   and a style outside the seven known ones is reported as an unknown
   style whatever in is. *)
C18_StyleTable ==
    \A skip \in BOOLEAN :
        ParamReturned(skip) =>
            LET sd == DiagsAt(pres[skip].out.errs, joinLoc(ParamLocation, <<"style">>)) IN
            /\ param.Style = "" => sd = <<>>
            /\ param.Style # "" => (Len(sd) = IF Permitted(param.In, param.Style) THEN 0 ELSE 1)
            /\ (param.Style # "" /\ param.Style \notin KnownStyles) =>
                  sd = <<newValidationError(joinLoc(ParamLocation, <<"style">>), ErrStyleInvalid)>>

C18_Witness ==
    /\ ParamReturned(FALSE)
    /\ param.In = "query"
    /\ param.Style = "simple"
    /\ DiagsAt(pres[FALSE].out.errs, joinLoc(ParamLocation, <<"style">>)) =
          <<newValidationError(joinLoc(ParamLocation, <<"style">>), ErrStyleOnlyPathHeader)>>

\* the example of key k resolves to an example with a value
Candidate(k) ==
    LET r == GetSpecOf(param.Examples.m[k], components) IN
    r.res = "ok" /\ r.val.Value # Nil

CandidateValue(k) == GetSpecOf(param.Examples.m[k], components).val.Value.val

\* the parameter has a schema, or the content entry the code takes has one
HasEffectiveSchema(first) ==
    \/ param.Schema # Nil
    \/ (first \in DOMAIN param.Content.m /\ param.Content.m[first].Schema # Nil)

\* the location or reference of that schema
EffectiveSchema(first) ==
    IF param.Schema # Nil
    THEN IF param.Schema.Ref # Nil THEN [id |-> param.Schema.Ref.Ref]
         ELSE [at |-> ParamLocation \o <<"schema">>]
    ELSE IF param.Content.m[first].Schema.Ref # Nil
    THEN [id |-> param.Content.m[first].Schema.Ref.Ref]
    ELSE [at |-> ParamLocation \o <<"content", first, "schema">>]

(* C19: for the single example and for each example-map entry that
   resolves, the schema checker is called with the effective schema
   location (of the direct schema, or of the content entry's schema) and
   the candidate value, and a failure of the checker gives exactly one
   diagnostic at <location>/example or <location>/examples/<key>. *)
C19_CheckerGetsEffectiveSchema ==
    (ParamReturned(FALSE) /\ HasEffectiveSchema(pres[FALSE].first)) =>
        LET out == pres[FALSE].out
            eff == EffectiveSchema(pres[FALSE].first)
        IN /\ \A i \in DOMAIN out.v.data : out.v.data[i].loc = eff
           /\ param.Example # Nil =>
                 /\ \E i \in DOMAIN out.v.data : out.v.data[i].value = param.Example.val
                 /\ Len(DiagsAt(out.errs, joinLoc(ParamLocation, <<"example">>))) =
                       IF param.Example.val \in reject THEN 1 ELSE 0
           /\ \A k \in DOMAIN param.Examples.m :
                 Candidate(k) =>
                    /\ \E i \in DOMAIN out.v.data : out.v.data[i].value = CandidateValue(k)
                    /\ Len(DiagsAt(out.errs, joinLoc(ParamLocation, <<"examples", k>>))) =
                          IF CandidateValue(k) \in reject THEN 1 ELSE 0

\* d reports an example check: a failure of the checker, or that the
\* examples cannot be checked
ExampleDiagnostic(d) ==
    \/ d.err = ErrorOf("data does not match the schema")
    \/ d = newValidationError(ParamLocation, ErrNoSchema)

(* C20: for every parameter, the diagnostics returned with
   doNotValidateExamples set are the diagnostics returned without it minus
   the diagnostics of the example checks. *)
C20_SkipOnlyDropsExampleChecks ==
    (pres[TRUE] # Nil /\ pres[FALSE] # Nil) =>
        /\ ~pres[TRUE].out.panic
        /\ ~pres[FALSE].out.panic
        /\ pres[TRUE].out.errs =
              SelectSeq(pres[FALSE].out.errs, LAMBDA d : ~ExampleDiagnostic(d))

-----------------------------------------------------------------------------
(* Properties of a validation run *)

\* the call is on a container that holds only a Reference, whose identifier
\* the run had not visited
OnUnvisitedReference(call) ==
    /\ call.o.Spec = Nil
    /\ call.o.Ref # Nil
    /\ call.o.Ref.Ref \notin call.before.visited

\* where the entry is declared at which the chain of references from o
\* ends, for o a Reference that resolves in c
RECURSIVE DeclaredAt(_, _)
DeclaredAt(o, c) ==
    LET n == CHOOSE k \in DOMAIN c[FieldOf(o.T)] : o.Ref.Ref = ComponentRef(FieldOf(o.T), k)
    IN IF Target(o, c).Spec # Nil
       THEN joinLoc(ComponentsLocation, <<CategoryName(FieldOf(o.T)), n>>)
       ELSE DeclaredAt(Target(o, c), c)

\* how many times the rules of an inline value were checked at location
TimesChecked(location) ==
    Cardinality({i \in DOMAIN vrun.checked : vrun.checked[i] = location})

RunOver == vpc \in {"done", "panic"}

(* C15: when a call of the run is on a Reference the run had not visited
   and the Reference resolves to an entry of Components, the call checks
   nothing at its own location, the rules of that entry are never checked
   more than once at the entry's declared location, and when the run is
   over they have been checked there exactly once. *)
C15_TargetCheckedOnceWhereDeclared ==
    \A i \in DOMAIN vcalls :
        (OnUnvisitedReference(vcalls[i]) /\ GetSpecOf(vcalls[i].o, components).res = "ok") =>
            /\ vcalls[i].out.panic = FALSE
            /\ vcalls[i].out.errs = <<>>
            /\ vcalls[i].out.v.checked = vcalls[i].before.checked
            /\ TimesChecked(DeclaredAt(vcalls[i].o, components)) <= 1
            /\ RunOver => TimesChecked(DeclaredAt(vcalls[i].o, components)) = 1

(* C16: a call on a container that holds neither a Reference nor an inline
   value returns, with the one diagnostic at its location that the
   Reference is nil. *)
C16_EmptyContainerDiagnostic ==
    \A i \in DOMAIN vcalls :
        (vcalls[i].o.Spec = Nil /\ vcalls[i].o.Ref = Nil) =>
            /\ vcalls[i].out.panic = FALSE
            /\ vcalls[i].out.errs =
                  <<newValidationError(vcalls[i].loc, NewSpecNotFoundError(MsgNilRef, {}))>>

(* C17: a call on a Reference the run had not visited and whose resolution
   fails returns exactly one diagnostic, at the call's location and with
   the error of the resolution, and the identifier is visited after it. *)
C17_FailedReferenceOneDiagnostic ==
    \A i \in DOMAIN vcalls :
        (OnUnvisitedReference(vcalls[i]) /\ GetSpecOf(vcalls[i].o, components).res # "ok") =>
            /\ vcalls[i].out.panic = FALSE
            /\ vcalls[i].out.errs =
                  <<newValidationError(vcalls[i].loc, GetSpecOf(vcalls[i].o, components).err)>>
            /\ vcalls[i].o.Ref.Ref \in vcalls[i].out.v.visited

OnVisitedReference(call) ==
    /\ call.o.Spec = Nil
    /\ call.o.Ref # Nil
    /\ call.o.Ref.Ref \in call.before.visited

(* C26: a call on a Reference whose identifier the run has visited returns
   no diagnostic and leaves the Validator as it was: the visited set is
   unchanged and no GetSpec call was made, whatever the kind of the
   container and whatever the first visit gave. *)
C26_VisitedReferenceSkipped ==
    \A i \in DOMAIN vcalls :
        OnVisitedReference(vcalls[i]) =>
            /\ vcalls[i].out.panic = FALSE
            /\ vcalls[i].out.errs = <<>>
            /\ vcalls[i].out.v.visited = vcalls[i].before.visited
            /\ vcalls[i].out.v.resolved = vcalls[i].before.resolved
            /\ vcalls[i].out.v = vcalls[i].before

\* a Response container is skipped for the identifier of a Schema container
\* whose visit gave a diagnostic
C26_Witness ==
    \E i, j \in DOMAIN vcalls :
        /\ j < i
        /\ OnVisitedReference(vcalls[i])
        /\ vcalls[i].o.T = "Response"
        /\ vcalls[j].o.T = "Schema"
        /\ OnUnvisitedReference(vcalls[j])
        /\ vcalls[j].o.Ref.Ref = vcalls[i].o.Ref.Ref
        /\ vcalls[j].out.errs # <<>>
        /\ vcalls[i].out = Outcome(<<>>, vcalls[i].before)

\* the GetSpec calls of the run that were made by the callers in by
AttemptsBy(by) == SelectSeq(vrun.resolved, LAMBDA a : a.by \in by)

\* no two of the calls are on one identifier
OneEach(attempts) ==
    \A i, j \in DOMAIN attempts : attempts[i].id = attempts[j].id => i = j

\* the identifiers of the References of the document
DocumentRefs ==
    {vdoc[item].Ref.Ref : item \in {x \in DOMAIN vdoc : vdoc[x].Ref # Nil}}
    \cup (IF components = Nil THEN {}
          ELSE UNION {{components[f][k].Ref.Ref :
                          k \in {n \in DOMAIN components[f] : components[f][n].Ref # Nil}} :
                      f \in DOMAIN components})

\* a run that is under way has parts left to validate, and what is left was
\* left when it began
RunBounded ==
    /\ vpc = "run" => vtodo # {}
    /\ vtodo \subseteq DOMAIN vdoc \cup {"components", "parameter"}

(* C27, as the claim states it: a run always has a part left until it is
   over, and no two GetSpec calls of a run are on one identifier. *)
C27_OneAttemptPerIdentifier ==
    /\ RunBounded
    /\ OneEach(vrun.resolved)

(* C27: a run always has a part left until it is over (returning, or with a
   panic), cycles among the entries of Components included; no two GetSpec
   calls made by RefOrSpec.validateSpec are on one identifier, so that there
   are no more of them than References in the document; the loop over the
   example map of a parameter makes one more call for each of its
   References. *)
C27_OneAttemptPerIdentifierVisit ==
    /\ RunBounded
    /\ OneEach(AttemptsBy({"validateSpec"}))
    /\ {AttemptsBy({"validateSpec"})[i].id : i \in DOMAIN AttemptsBy({"validateSpec"})}
          \subseteq DocumentRefs
    /\ Len(AttemptsBy({"examples"})) <=
          (IF param = Nil THEN 0 ELSE Cardinality(DOMAIN param.Examples.m))

\* a run is over, having returned, over Components in which A refers to B
\* and B to A, and two containers with the identifier of A
C27_Witness ==
    /\ vpc = "done"
    /\ components # Nil
    /\ DOMAIN components.Schemas = {<<"A">>, <<"B">>}
    /\ components.Schemas[<<"A">>].Ref # Nil
    /\ components.Schemas[<<"A">>].Ref.Ref = ComponentRef("Schemas", <<"B">>)
    /\ components.Schemas[<<"B">>].Ref # Nil
    /\ components.Schemas[<<"B">>].Ref.Ref = ComponentRef("Schemas", <<"A">>)
    /\ \A item \in DOMAIN vdoc :
          vdoc[item].Ref # Nil /\ vdoc[item].Ref.Ref = ComponentRef("Schemas", <<"A">>)
    /\ Len(AttemptsBy({"validateSpec"})) = 2

\* how many invalid-name diagnostics the run gave at location
NameDiagnostics(location) ==
    Cardinality({i \in DOMAIN verrs : verrs[i] = newValidationError(location, ErrInvalidName)})

\* the calls of the run that validate the entry v at location
EntryCalls(v, location) ==
    {i \in DOMAIN vcalls : vcalls[i].loc = location /\ vcalls[i].o = v}

(* C24: when a run over Components returns, every entry k of each of the
   ten maps has, at <location>/<category>/<k>, exactly one invalid-name
   diagnostic when k is "foo bar" or the empty name and none when k is
   "foo-bar_1.2" or "A"; the entry was validated there once in both cases,
   and what that gave is among the diagnostics of the run. *)
C24_InvalidNameDiagnostic ==
    vpc = "done" =>
        \A f \in DOMAIN components : \A k \in DOMAIN components[f] :
            LET at == joinLoc(ComponentsLocation, <<CategoryName(f), k>>) IN
            /\ k \in {FooBar, <<>>} => NameDiagnostics(at) = 1
            /\ k \in {FooBar12, <<"A">>} => NameDiagnostics(at) = 0
            /\ Cardinality(EntryCalls(components[f][k], at)) = 1
            /\ \A i \in EntryCalls(components[f][k], at) :
                  \A n \in DOMAIN vcalls[i].out.errs :
                     \E m \in DOMAIN verrs : verrs[m] = vcalls[i].out.errs[n]
            /\ (components[f][k].Spec # Nil /\ components[f][k].Spec.Title = BadTitle) =>
                  \E m \in DOMAIN verrs : verrs[m] = newValidationError(at, ErrorOf("rule"))

\* a run returned over a map of path items with the entries "foo bar", an
\* inline value that breaks a rule, and "foo-bar_1.2"
C24_Witness ==
    /\ vpc = "done"
    /\ DOMAIN components.Paths = {FooBar, FooBar12}
    /\ components.Paths[FooBar].Spec # Nil
    /\ components.Paths[FooBar].Spec.Title = BadTitle
    /\ NameDiagnostics(joinLoc(ComponentsLocation, <<S_paths, FooBar>>)) = 1
    /\ NameDiagnostics(joinLoc(ComponentsLocation, <<S_paths, FooBar12>>)) = 0
    /\ Len(vcalls) = 2

-----------------------------------------------------------------------------
(* Properties of two runs over one document *)

\* what a run gives that validates the parts of steps, in that order, with
\* no other run beside it
StepOut(s, v) ==
    IF s.part = "components"
    THEN ComponentsValidateSpec(components, ComponentsLocation, v, components, s.order)
    ELSE RefOrSpecValidateSpec(vdoc[s.part], DocLocation(s.part), v, components)

RECURSIVE Alone(_, _)
Alone(steps, acc) ==
    IF steps = <<>> \/ acc.panic THEN acc
    ELSE CHOOSE w \in
           UNION {{Alone(Tail(steps),
                         [errs |-> a.errs \o out.errs, v |-> out.v, panic |-> out.panic]) :
                      out \in {StepOut(Head(steps), a.v)}} :
                  a \in {acc}} : TRUE

SameAsAlone(run) ==
    \E alone \in {Alone(run.steps, [errs |-> <<>>, v |-> NewValidator, panic |-> FALSE])} :
       /\ (run.pc = "panic") = alone.panic
       /\ run.pc # "panic" => (run.errs = alone.errs /\ run.v = alone.v)

\* a step of one run leaves the other run and the document as they were
OwnStateOnly ==
    /\ components' = components
    /\ vdoc' = vdoc
    /\ \A r, q \in RunIds : (r # q /\ runs'[r] # runs[r]) => runs'[q] = runs[q]

(* C25: every step of a run leaves the document and the visited set and
   diagnostics of the other run as they were, and each run has, at every
   point and when it is over, the diagnostics and the visited set that a
   run alone has after the same parts. *)
C25_RunsDoNotInterfere ==
    /\ [](\A r \in RunIds : SameAsAlone(runs[r]))
    /\ [][OwnStateOnly]_vars

\* both runs are over, having validated the parts in different orders and
\* reported the same failing Reference, after steps that interleaved
C25_Witness ==
    /\ runs[1].pc = "done"
    /\ runs[2].pc = "done"
    /\ Len(runs[1].steps) > 1
    /\ runs[1].steps[1].part # runs[2].steps[1].part
    /\ runs[1].errs # <<>>
    /\ runs[1].v.visited # {}
    /\ runs[1].v.visited = runs[2].v.visited

-----------------------------------------------------------------------------
(* Properties of Parameter.validateSpec: its shape and its flags *)

(* C21: a validation that returns gives exactly one mutually-exclusive
   diagnostic at <location>/schema&content when the parameter has both a
   schema and a content map and none otherwise, and exactly one at
   <location>/example&examples when it has both an example and a non-empty
   example map and none otherwise. *)
C21_MutualExclusions ==
    \A skip \in BOOLEAN :
        ParamReturned(skip) =>
            /\ DiagsAt(pres[skip].out.errs, joinLoc(ParamLocation, <<"schema&content">>)) =
                  IF param.Schema # Nil /\ ~param.Content.isNil
                  THEN <<newValidationError(joinLoc(ParamLocation, <<"schema&content">>),
                                            ErrMutuallyExclusive)>>
                  ELSE <<>>
            /\ DiagsAt(pres[skip].out.errs, joinLoc(ParamLocation, <<"example&examples">>)) =
                  IF param.Example # Nil /\ DOMAIN param.Examples.m # {}
                  THEN <<newValidationError(joinLoc(ParamLocation, <<"example&examples">>),
                                            ErrMutuallyExclusive)>>
                  ELSE <<>>

C21_Witness ==
    /\ ParamReturned(FALSE)
    /\ param.Schema # Nil
    /\ DOMAIN param.Content.m = {"k1"}
    /\ param.Example # Nil
    /\ DOMAIN param.Examples.m = {"x", "y"}
    /\ Len(DiagsAt(pres[FALSE].out.errs, joinLoc(ParamLocation, <<"schema&content">>))) = 1
    /\ Len(DiagsAt(pres[FALSE].out.errs, joinLoc(ParamLocation, <<"example&examples">>))) = 1

(* C22: a validation that returns gives a diagnostic at <location>/content
   when the parameter has a content map whose number of entries is not
   one, an empty map included, and none when the map has one entry. *)
C22_ContentHasOneEntry ==
    \A skip \in BOOLEAN :
        (ParamReturned(skip) /\ ~param.Content.isNil) =>
            Len(DiagsAt(pres[skip].out.errs, joinLoc(ParamLocation, <<"content">>))) =
                IF Cardinality(DOMAIN param.Content.m) = 1 THEN 0 ELSE 1

(* C23: a validation that returns gives exactly one diagnostic at
   <location>/required when in is path and required is false, and none
   there otherwise; for a parameter that breaks no other rule it is the
   only diagnostic. *)
C23_RequiredInPath ==
    \A skip \in BOOLEAN :
        ParamReturned(skip) =>
            LET rd == DiagsAt(pres[skip].out.errs, joinLoc(ParamLocation, <<"required">>))
                others == SelectSeq(pres[skip].out.errs,
                                    LAMBDA d : d.loc # joinLoc(ParamLocation, <<"required">>))
            IN /\ rd = IF param.In = InPath /\ ~param.Required
                       THEN <<newValidationError(joinLoc(ParamLocation, <<"required">>),
                                                 ErrRequiredInPath)>>
                       ELSE <<>>
               /\ (others = <<>> /\ param.In = InPath /\ ~param.Required) =>
                     Len(pres[skip].out.errs) = 1

C23_Witness ==
    /\ ParamReturned(TRUE)
    /\ param.In = InPath
    /\ ~param.Required
    /\ pres[TRUE].out.errs =
          <<newValidationError(joinLoc(ParamLocation, <<"required">>), ErrRequiredInPath)>>

\* the entry k of the example map is a Reference that does not resolve
UnresolvedExample(k) ==
    /\ param.Examples.m[k].Spec = Nil
    /\ param.Examples.m[k].Ref # Nil
    /\ GetSpecOf(param.Examples.m[k], components).res # "ok"

(* C28: when an entry of the example map is a Reference that does not
   resolve, the validation with the example checks returns, and the
   diagnostics at <location>/examples/<key> are the one diagnostic of the
   failed resolution: the entry is reported once and the example check
   adds nothing for it. *)
C28_UnresolvedExampleReportedOnce ==
    \A k \in DOMAIN param.Examples.m :
        (pres[FALSE] # Nil /\ UnresolvedExample(k)) =>
            /\ pres[FALSE].out.panic = FALSE
            /\ DiagsAt(pres[FALSE].out.errs, joinLoc(ParamLocation, <<"examples", k>>)) =
                  <<newValidationError(joinLoc(ParamLocation, <<"examples", k>>),
                                       GetSpecOf(param.Examples.m[k], components).err)>>

-----------------------------------------------------------------------------
(* Properties of RefOrSpec.UnmarshalJSON: what an error leaves *)

(* C29: when UnmarshalJSON returned an error, the Ref and the Spec of the
   container are what they were when it was called. *)
C29_ErrorLeavesContainer ==
    jres = "error" => (box.Ref = before.Ref /\ box.Spec = before.Spec)

-----------------------------------------------------------------------------
(* Properties of BoolOrSchema: the flag beside a schema *)

Consistent(b) == b # Nil /\ b.Schema # Nil => b.Allowed

\* ad was decoded into a new testAD from the encoding of what the last
\* NewBoolOrSchema returned
RoundTripped ==
    /\ adnew # Nil
    /\ adnew.val # Nil
    /\ DecodedNew
    /\ adin = MarshalTestAD(testAD(adnew.val, <<>>))

(* C30: every BoolOrSchema that NewBoolOrSchema returns, for a boolean, a
   schema container or a schema builder, and every BoolOrSchema a successful
   decode leaves, has Allowed true when its Schema is present; so decoding
   the encoding of such a value gives an equal value. *)
C30_SchemaImpliesAllowed ==
    /\ adnew # Nil => Consistent(adnew.val)
    /\ (adres = "ok" /\ "ap" \in DOMAIN adin.m) => Consistent(ad.AP)
    /\ RoundTripped => ad.AP = adnew.val

=============================================================================
